---- MODULE Spec2Model ----
(***************************************************************************)
(* A model of the SRP-6a library github.com/johandroz/srp: the in-memory   *)
(* storage backend, the Client (Step1, Step2, Step3), the Server (Step1,   *)
(* Step2) and the Verifier generator, over small prime-order groups and a  *)
(* small hash.                                                             *)
(*                                                                         *)
(* The arithmetic kernel (srp.go: computeMultiplier, computeX..., the      *)
(* state enum, generatePrivateValue, isValidPublicValue) is not among the  *)
(* source files; it is modelled from the specification, section 4.1.       *)
(***************************************************************************)
EXTENDS Integers, Sequences, FiniteSets, TLC

VARIABLES
    cfg,            \* the options the objects were constructed with
    clientBackend,  \* the map m of the Client's MemoryBackend
    serverBackend,  \* the map m of the Server's MemoryBackend
    now,            \* the wall clock read by time.Now()
    last,           \* the most recent event: a call, its error and its results
    hs,             \* the local variables of an application running the handshake
    kern            \* inputs and results of a direct use of the arithmetic kernel

vars == <<cfg, clientBackend, serverBackend, now, last, hs, kern>>

-----------------------------------------------------------------------------
(* Bounds of the model.                                                    *)

\* The clock runs from 0 to MaxTime.
MaxTime == 2

\* The hash adapter produces digests in 0 .. HashRange-1.
HashRange == 8

-----------------------------------------------------------------------------
(* Values.                                                                 *)

\* A nil *big.Int argument or result.
Nil == -1

\* A nil []byte salt, and the salts of the model.
NilSalt == [isNil |-> TRUE, bytes |-> <<>>]
Salt1 == [isNil |-> FALSE, bytes |-> <<190, 178>>]
Salts == {NilSalt, Salt1}

\* User identities and passwords, with the bytes of each string.
UserIDs == {"", "alice"}
Passwords == {"", "pw", "bad"}
StrBytes(s) ==
    CASE s = "" -> <<>>
      [] s = "alice" -> <<97, 108, 105, 99, 101>>
      [] s = "bob" -> <<98, 111, 98>>
      [] s = "pw" -> <<112, 119>>
      [] s = "bad" -> <<98, 97, 100>>
      [] s = ":" -> <<58>>

\* The groups (N, g): N a safe prime, g a primitive root modulo N.
Groups ==
    { [Prime |-> 5, Generator |-> 2],
      [Prime |-> 7, Generator |-> 3],
      [Prime |-> 11, Generator |-> 2] }

-----------------------------------------------------------------------------
(* BigInt primitives and the hash adapter.                                 *)

\* big.Int.Bytes: the big-endian bytes of n, without leading zeros.
RECURSIVE Bytes(_)
Bytes(n) == IF n = 0 THEN <<>> ELSE Append(Bytes(n \div 256), n % 256)

\* PAD(x): x left-padded with zero bytes to length len.
getPadded(x, len) ==
    LET b == Bytes(x)
    IN  IF Len(b) >= len THEN b ELSE [i \in 1..(len - Len(b)) |-> 0] \o b

\* big.Int.Exp(base, e, n): base^e mod n.
RECURSIVE ModExp(_, _, _)
ModExp(base, e, n) ==
    IF e = 0 THEN 1 % n
    ELSE LET h == ModExp(base, e \div 2, n)
             sq == (h * h) % n
         IN  IF e % 2 = 0 THEN sq ELSE (sq * (base % n)) % n

\* The hash: absorbs the bytes one by one; the digest read as an integer.
RECURSIVE HashFold(_, _)
HashFold(h, bs) ==
    IF bs = <<>> THEN h
    ELSE HashFold((h * 11 + Head(bs) + 1) % HashRange, Tail(bs))

Hash(bs) == HashFold(6 % HashRange, bs)

\* h.Sum(nil): the digest as bytes of the digest's fixed size (one byte).
HashSum(bs) == <<Hash(bs)>>

-----------------------------------------------------------------------------
(* The SRP math kernel.                                                    *)

\* k = H(N | PAD(g)), taken modulo N.
computeMultiplier(prime, generator) ==
    Hash(Bytes(prime) \o getPadded(generator, Len(Bytes(prime)))) % prime

\* x = H(s | H(I | ":" | P))
computeXWithUsername(salt, username, password) ==
    Hash(salt \o HashSum(StrBytes(username) \o StrBytes(":") \o StrBytes(password)))

\* x = H(s | H(P))
computeXWithoutUsername(salt, username, password) ==
    Hash(salt \o HashSum(StrBytes(password)))

computeX(variant, salt, username, password) ==
    IF variant = "computeXWithUsername"
    THEN computeXWithUsername(salt, username, password)
    ELSE computeXWithoutUsername(salt, username, password)

\* v = g^x mod N
computeVerifier(prime, generator, x) == ModExp(generator, x, prime)

\* A = g^a mod N
computePublicClientValue(prime, generator, privateClientValue) ==
    ModExp(generator, privateClientValue, prime)

\* B = (k*v + g^b mod N) mod N
computePublicServerValue(prime, generator, multiplier, verifier, privateServerValue) ==
    (multiplier * verifier + ModExp(generator, privateServerValue, prime)) % prime

\* u = H(PAD(A) | PAD(B)), not reduced modulo N
computeScramblingParameter(prime, publicClientValue, publicServerValue) ==
    Hash(getPadded(publicClientValue, Len(Bytes(prime)))
         \o getPadded(publicServerValue, Len(Bytes(prime))))

\* S = (B - k * g^x mod N)^(a + u*x) mod N, the base taken in [0, N)
computeClientSessionKey(prime, generator, multiplier, x, scramblingParam, privateClientValue, publicServerValue) ==
    LET base == (publicServerValue
                 - ((multiplier * ModExp(generator, x, prime)) % prime)) % prime
    IN  ModExp(base, privateClientValue + scramblingParam * x, prime)

\* S = (A * v^u mod N)^b mod N
computeServerSessionKey(prime, verifier, scramblingParam, publicClientValue, privateServerValue) ==
    ModExp((publicClientValue * ModExp(verifier, scramblingParam, prime)) % prime,
           privateServerValue, prime)

\* X mod N # 0; a nil value is not valid.
isValidPublicValue(prime, value) ==
    /\ value # Nil
    /\ value % prime # 0

\* M1 = H(A | B | S), the unpadded bytes
computeClientEvidence(publicClientValue, publicServerValue, sessionKey) ==
    Hash(Bytes(publicClientValue) \o Bytes(publicServerValue) \o Bytes(sessionKey))

\* M2 = H(A | M1 | S), the unpadded bytes
computeServerEvidence(publicClientValue, clientEvidence, sessionKey) ==
    Hash(Bytes(publicClientValue) \o Bytes(clientEvidence) \o Bytes(sessionKey))

\* The results the private-value generator can return for N: a value in
\* [1, N-1] and no error.
generatePrivateValue(prime) ==
    { [err |-> FALSE, val |-> v] : v \in 1..(prime - 1) }

-----------------------------------------------------------------------------
(* The state enum and the values of a session record. A record is a Go     *)
(* map[string]interface{}: a function from field names to values, each     *)
(* value carrying its dynamic type.                                        *)

initial == "initial"
step1 == "step1"
step2 == "step2"

StateV(s) == [kind |-> "state", val |-> s]
TimeV(t) == [kind |-> "time.Time", val |-> t]
BigV(n) == [kind |-> "*big.Int", val |-> n]
StrV(s) == [kind |-> "string", val |-> s]

\* The nil error.
NoErr == ""

-----------------------------------------------------------------------------
(* The storage backend.                                                    *)

\* The empty map of NewMemoryBackend.
NewMemoryBackend == [k \in {} |-> 0]

\* A Put that keeps the value of a key that is already present.
PutIfAbsent(m, key, val) ==
    [k \in DOMAIN m \cup {key} |-> IF k \in DOMAIN m THEN m[k] ELSE val]

\* MemoryBackend.Put: s.m[key] = val
Put(m, key, val) == [k \in DOMAIN m \cup {key} |-> IF k = key THEN val ELSE m[k]]

\* A Get that returns the zero value and no error for an absent key.
GetZeroValue(m, key) ==
    IF key \in DOMAIN m
    THEN [err |-> FALSE, val |-> m[key]]
    ELSE [err |-> FALSE, val |-> [k \in {} |-> 0]]

\* MemoryBackend.Get: the value, or the error "key not found"
Get(m, key) ==
    IF key \in DOMAIN m
    THEN [err |-> FALSE, val |-> m[key]]
    ELSE [err |-> TRUE, val |-> NewMemoryBackend]

\* A Delete that empties the map instead of deleting one key.
DeleteEveryKey(m, key) == [k \in {} |-> m[key]]

\* MemoryBackend.Delete: delete(s.m, key)
Delete(m, key) == [k \in DOMAIN m \ {key} |-> m[k]]

\* The Backend interface as the library calls it. fault names the call that
\* the backend answers with an error, leaving its content as it was; with
\* fault "none" the backend is the MemoryBackend.
BackendFaults == {"none", "Get", "Put", "Delete"}

BackendPut(fault, m, key, val) ==
    IF fault = "Put" THEN [err |-> TRUE, m |-> m]
    ELSE [err |-> FALSE, m |-> Put(m, key, val)]

BackendGet(fault, m, key) ==
    IF fault = "Get" THEN [err |-> TRUE, val |-> NewMemoryBackend]
    ELSE Get(m, key)

BackendDelete(fault, m, key) ==
    IF fault = "Delete" THEN [err |-> TRUE, m |-> m]
    ELSE [err |-> FALSE, m |-> Delete(m, key)]

-----------------------------------------------------------------------------
(* What a step returns: its error, the backend content it leaves, whether  *)
(* it discarded an error of the backend's Put or Delete, and its results.  *)

Ret(err, m, ignoredErr, B, A, M1, M2) ==
    [ err |-> err, backend |-> m, ignoredErr |-> ignoredErr,
      publicServerValue |-> B, publicClientValue |-> A,
      clientEvidence |-> M1, serverEvidence |-> M2 ]

\* return nil, ..., err
Fail(err, m) == Ret(err, m, FALSE, Nil, Nil, Nil, Nil)

\* x, ok = m[name]; v, ok = x.(kind): the error of the first check that
\* fails, in the order the fields are read.
ReadField(rec, name, kind) ==
    IF name \notin DOMAIN rec THEN "could not read '" \o name \o "' from backend"
    ELSE IF rec[name].kind # kind THEN "type assertion error for '" \o name \o "'"
    ELSE NoErr

RECURSIVE ReadFields(_, _)
ReadFields(rec, fields) ==
    IF fields = <<>> THEN NoErr
    ELSE LET e == ReadField(rec, Head(fields)[1], Head(fields)[2])
         IN  IF e # NoErr THEN e ELSE ReadFields(rec, Tail(fields))

\* hasTimedOut without the case of timeout 0.
hasTimedOutNoZero(timeout, lastActivity, t) == t > lastActivity + timeout

\* hasTimedOut that also expires at lastActivity + timeout.
hasTimedOutAtLimit(timeout, lastActivity, t) ==
    IF timeout = 0 THEN FALSE ELSE t >= lastActivity + timeout

\* hasTimedOut of Client and of Server, at time t.
hasTimedOut(timeout, lastActivity, t) ==
    IF timeout = 0 THEN FALSE ELSE t > lastActivity + timeout

-----------------------------------------------------------------------------
(* The Verifier generator.                                                 *)

\* A GenerateVerifier that computes x without the username whatever X
\* function is configured.
GenerateVerifierDefaultX(c, salt, username, password) ==
    computeVerifier(c.grp.Prime, c.grp.Generator,
                    computeXWithoutUsername(salt.bytes, username, password))

GenerateVerifier(c, salt, username, password) ==
    LET x == computeX(c.computeX, salt.bytes, username, password)
    IN  computeVerifier(c.grp.Prime, c.grp.Generator, x)

-----------------------------------------------------------------------------
(* The Client.                                                             *)

\* Client.Step1 writing its fields into the record already stored.
ClientStep1MergesRecord(c, m, t, fault, userID, password) ==
    IF userID = "" THEN Fail("the user identity must not be empty", m)
    ELSE IF password = "" THEN Fail("the user password must not be empty", m)
    ELSE LET new == [ state |-> StateV(step1),
                      lastActivity |-> TimeV(t),
                      password |-> StrV(password) ]
             old == IF userID \in DOMAIN m THEN m[userID] ELSE new
             put == BackendPut(fault, m, userID,
                        [ k \in DOMAIN old \cup DOMAIN new |->
                            IF k \in DOMAIN new THEN new[k] ELSE old[k] ])
         IN  Ret(NoErr, put.m, put.err, Nil, Nil, Nil, Nil)

\* Client.Step1 storing the state initial.
ClientStep1StoresInitial(c, m, t, fault, userID, password) ==
    IF userID = "" THEN Fail("the user identity must not be empty", m)
    ELSE IF password = "" THEN Fail("the user password must not be empty", m)
    ELSE LET put == BackendPut(fault, m, userID,
                        [ state |-> StateV(initial),
                          lastActivity |-> TimeV(t),
                          password |-> StrV(password) ])
         IN  Ret(NoErr, put.m, put.err, Nil, Nil, Nil, Nil)

ClientStep1(c, m, t, fault, userID, password) ==
    IF userID = "" THEN Fail("the user identity must not be empty", m)
    ELSE IF password = "" THEN Fail("the user password must not be empty", m)
    ELSE LET put == BackendPut(fault, m, userID,
                        [ state |-> StateV(step1),
                          lastActivity |-> TimeV(t),
                          password |-> StrV(password) ])
         IN  Ret(NoErr, put.m, put.err, Nil, Nil, Nil, Nil)

\* The fields Client.Step2 reads, in order, with the type it asserts.
ClientStep2Fields ==
    << <<"state", "state">>, <<"lastActivity", "time.Time">>, <<"password", "string">> >>

\* Client.Step2 computing M1 as H(B | A | S).
ClientKeyMaterialSwappedEvidence(c, x, privateClientValue, publicServerValue) ==
    LET publicClientValue ==
            computePublicClientValue(c.grp.Prime, c.grp.Generator, privateClientValue)
        multiplier == computeMultiplier(c.grp.Prime, c.grp.Generator)
        scramblingParam ==
            computeScramblingParameter(c.grp.Prime, publicClientValue, publicServerValue)
        sessionKey ==
            computeClientSessionKey(c.grp.Prime, c.grp.Generator, multiplier, x,
                                    scramblingParam, privateClientValue, publicServerValue)
        clientEvidence ==
            computeClientEvidence(publicServerValue, publicClientValue, sessionKey)
    IN  [ publicClientValue |-> publicClientValue,
          scramblingParam |-> scramblingParam,
          sessionKey |-> sessionKey,
          clientEvidence |-> clientEvidence ]

\* A, k, u, S and M1 as Client.Step2 computes them from x and a.
ClientKeyMaterial(c, x, privateClientValue, publicServerValue) ==
    LET publicClientValue ==
            computePublicClientValue(c.grp.Prime, c.grp.Generator, privateClientValue)
        multiplier == computeMultiplier(c.grp.Prime, c.grp.Generator)
        scramblingParam ==
            computeScramblingParameter(c.grp.Prime, publicClientValue, publicServerValue)
        sessionKey ==
            computeClientSessionKey(c.grp.Prime, c.grp.Generator, multiplier, x,
                                    scramblingParam, privateClientValue, publicServerValue)
        clientEvidence ==
            computeClientEvidence(publicClientValue, publicServerValue, sessionKey)
    IN  [ publicClientValue |-> publicClientValue,
          scramblingParam |-> scramblingParam,
          sessionKey |-> sessionKey,
          clientEvidence |-> clientEvidence ]

\* The end of Client.Step2: the record is put, the error of Put discarded.
ClientStep2Store(m, t, fault, userID, km) ==
    LET put == BackendPut(fault, m, userID,
                   [ state |-> StateV(step2),
                     lastActivity |-> TimeV(t),
                     publicClientValue |-> BigV(km.publicClientValue),
                     clientEvidence |-> BigV(km.clientEvidence),
                     sessionKey |-> BigV(km.sessionKey) ])
    IN  Ret(NoErr, put.m, put.err, Nil, km.publicClientValue, km.clientEvidence, Nil)

\* The checks of Client.Step2 on the record it got, in order.
ClientStep2Check(c, rec, t) ==
    LET rd == ReadFields(rec, ClientStep2Fields)
    IN  IF rd # NoErr THEN rd
        ELSE IF rec["state"].val # step1
             THEN "state violation: must be in 'step1' state"
        ELSE IF hasTimedOut(c.timeout, rec["lastActivity"].val, t)
             THEN "session timeout"
        ELSE NoErr

\* Client.Step2 rejecting only the values nil and 0 of B.
ClientStep2ZeroCheckOnly(c, m, t, fault, gen, userID, salt, publicServerValue) ==
    IF userID = "" THEN Fail("the user identity must not be empty", m)
    ELSE IF salt.isNil THEN Fail("the salt must not be nil", m)
    ELSE IF publicServerValue = Nil \/ publicServerValue = 0
         THEN Fail("bad server public value", m)
    ELSE LET got == BackendGet(fault, m, userID)
         IN  IF got.err
             THEN Fail("could not get SRP data from backend during step2", m)
             ELSE LET chk == ClientStep2Check(c, got.val, t)
                  IN  IF chk # NoErr THEN Fail(chk, m)
                      ELSE IF gen.err THEN Fail("generatePrivateValue", m)
                      ELSE ClientStep2Store(m, t, fault, userID,
                               ClientKeyMaterial(c,
                                   computeX(c.computeX, salt.bytes, userID,
                                            got.val["password"].val),
                                   gen.val, publicServerValue))

ClientStep2(c, m, t, fault, gen, userID, salt, publicServerValue) ==
    IF userID = "" THEN Fail("the user identity must not be empty", m)
    ELSE IF salt.isNil THEN Fail("the salt must not be nil", m)
    ELSE IF ~isValidPublicValue(c.grp.Prime, publicServerValue)
         THEN Fail("bad server public value", m)
    ELSE LET got == BackendGet(fault, m, userID)
         IN  IF got.err
             THEN Fail("could not get SRP data from backend during step2", m)
             ELSE LET chk == ClientStep2Check(c, got.val, t)
                  IN  IF chk # NoErr THEN Fail(chk, m)
                      ELSE IF gen.err THEN Fail("generatePrivateValue", m)
                      ELSE ClientStep2Store(m, t, fault, userID,
                               ClientKeyMaterial(c,
                                   computeX(c.computeX, salt.bytes, userID,
                                            got.val["password"].val),
                                   gen.val, publicServerValue))

\* The fields Client.Step3 reads, in order, with the type it asserts.
ClientStep3Fields ==
    << <<"state", "state">>, <<"lastActivity", "time.Time">>,
       <<"publicClientValue", "*big.Int">>, <<"clientEvidence", "*big.Int">>,
       <<"sessionKey", "*big.Int">> >>

\* The checks of Client.Step3 on the record it got, in order.
ClientStep3Check(c, rec, t) ==
    LET rd == ReadFields(rec, ClientStep3Fields)
    IN  IF rd # NoErr THEN rd
        ELSE IF rec["state"].val # step2
             THEN "state violation: must be in 'step2' state"
        ELSE IF hasTimedOut(c.timeout, rec["lastActivity"].val, t)
             THEN "session timeout"
        ELSE NoErr

\* Client.Step3 putting the session back to state step1 when the evidence
\* does not match.
ClientStep3FinishResetOnMismatch(m, fault, userID, computedM2, serverEvidence) ==
    IF computedM2 # serverEvidence
    THEN Fail("bad server credentials",
              Put(m, userID, [m[userID] EXCEPT !["state"] = StateV(step1)]))
    ELSE LET del == BackendDelete(fault, m, userID)
         IN  Ret(NoErr, del.m, del.err, Nil, Nil, Nil, Nil)

\* Client.Step3 deleting the session without comparing the evidence.
ClientStep3FinishNoCompare(m, fault, userID, computedM2, serverEvidence) ==
    LET del == BackendDelete(fault, m, userID)
    IN  Ret(NoErr, del.m, del.err, Nil, Nil, Nil, Nil)

\* Client.Step3 deleting the session before it compares the evidence.
ClientStep3FinishDeleteFirst(m, fault, userID, computedM2, serverEvidence) ==
    LET del == BackendDelete(fault, m, userID)
    IN  IF computedM2 # serverEvidence THEN Fail("bad server credentials", del.m)
        ELSE Ret(NoErr, del.m, del.err, Nil, Nil, Nil, Nil)

\* The end of Client.Step3: the evidence is compared and the session deleted,
\* the error of Delete discarded.
ClientStep3Finish(m, fault, userID, computedM2, serverEvidence) ==
    IF computedM2 # serverEvidence THEN Fail("bad server credentials", m)
    ELSE LET del == BackendDelete(fault, m, userID)
         IN  Ret(NoErr, del.m, del.err, Nil, Nil, Nil, Nil)

\* Client.Step3 deleting the session it finds timed out.
ClientStep3DeletesExpired(c, m, t, fault, userID, serverEvidence) ==
    IF userID = "" THEN Fail("the user identity must not be empty", m)
    ELSE IF serverEvidence = Nil
         THEN Fail("the server evidence message must not be nil", m)
    ELSE LET got == BackendGet(fault, m, userID)
         IN  IF got.err
             THEN Fail("could not get SRP data from backend during step3", m)
             ELSE LET chk == ClientStep3Check(c, got.val, t)
                  IN  IF chk = "session timeout" THEN Fail(chk, Delete(m, userID))
                      ELSE IF chk # NoErr THEN Fail(chk, m)
                      ELSE ClientStep3Finish(m, fault, userID,
                               computeServerEvidence(
                                   got.val["publicClientValue"].val,
                                   got.val["clientEvidence"].val,
                                   got.val["sessionKey"].val),
                               serverEvidence)

ClientStep3(c, m, t, fault, userID, serverEvidence) ==
    IF userID = "" THEN Fail("the user identity must not be empty", m)
    ELSE IF serverEvidence = Nil
         THEN Fail("the server evidence message must not be nil", m)
    ELSE LET got == BackendGet(fault, m, userID)
         IN  IF got.err
             THEN Fail("could not get SRP data from backend during step3", m)
             ELSE LET chk == ClientStep3Check(c, got.val, t)
                  IN  IF chk # NoErr THEN Fail(chk, m)
                      ELSE ClientStep3Finish(m, fault, userID,
                               computeServerEvidence(
                                   got.val["publicClientValue"].val,
                                   got.val["clientEvidence"].val,
                                   got.val["sessionKey"].val),
                               serverEvidence)

-----------------------------------------------------------------------------
(* The Server.                                                             *)

\* B computed with the multiplier 1 instead of k.
ServerPublicValueNoMultiplier(c, verifier, privateServerValue) ==
    computePublicServerValue(c.grp.Prime, c.grp.Generator, 1,
                             verifier, privateServerValue)

\* k and B as Server.Step1 computes them.
ServerPublicValue(c, verifier, privateServerValue) ==
    LET multiplier == computeMultiplier(c.grp.Prime, c.grp.Generator)
    IN  computePublicServerValue(c.grp.Prime, c.grp.Generator, multiplier,
                                 verifier, privateServerValue)

\* The end of Server.Step1: the record is put, the error of Put discarded.
ServerStep1Store(m, t, fault, userID, publicServerValue, privateServerValue) ==
    LET put == BackendPut(fault, m, userID,
                   [ state |-> StateV(step1),
                     lastActivity |-> TimeV(t),
                     publicServerValue |-> BigV(publicServerValue),
                     privateServerValue |-> BigV(privateServerValue) ])
    IN  Ret(NoErr, put.m, put.err, publicServerValue, Nil, Nil, Nil)

\* Server.Step1 keeping the verifier in the record it stores.
ServerStep1KeepsVerifier(c, m, t, fault, gen, userID, salt, verifier) ==
    IF userID = "" THEN Fail("the user identity must not be empty", m)
    ELSE IF salt.isNil THEN Fail("the salt must not be nil", m)
    ELSE IF verifier = Nil THEN Fail("the verifier must not be nil", m)
    ELSE IF gen.err THEN Fail("generatePrivateValue", m)
    ELSE LET B == ServerPublicValue(c, verifier, gen.val)
             put == BackendPut(fault, m, userID,
                        [ state |-> StateV(step1),
                          lastActivity |-> TimeV(t),
                          publicServerValue |-> BigV(B),
                          privateServerValue |-> BigV(gen.val),
                          verifier |-> BigV(verifier) ])
         IN  Ret(NoErr, put.m, put.err, B, Nil, Nil, Nil)

\* Server.Step1 leaving a session that is already stored as it is.
ServerStep1KeepsSession(c, m, t, fault, gen, userID, salt, verifier) ==
    IF userID = "" THEN Fail("the user identity must not be empty", m)
    ELSE IF salt.isNil THEN Fail("the salt must not be nil", m)
    ELSE IF verifier = Nil THEN Fail("the verifier must not be nil", m)
    ELSE IF gen.err THEN Fail("generatePrivateValue", m)
    ELSE IF userID \in DOMAIN m
         THEN Ret(NoErr, m, FALSE, ServerPublicValue(c, verifier, gen.val),
                  Nil, Nil, Nil)
    ELSE ServerStep1Store(m, t, fault, userID,
             ServerPublicValue(c, verifier, gen.val), gen.val)

\* Server.Step1 adding its fields to the record already stored.
ServerStep1MergesRecord(c, m, t, fault, gen, userID, salt, verifier) ==
    IF userID = "" THEN Fail("the user identity must not be empty", m)
    ELSE IF salt.isNil THEN Fail("the salt must not be nil", m)
    ELSE IF verifier = Nil THEN Fail("the verifier must not be nil", m)
    ELSE IF gen.err THEN Fail("generatePrivateValue", m)
    ELSE LET B == ServerPublicValue(c, verifier, gen.val)
             new == [ state |-> StateV(step1),
                      lastActivity |-> TimeV(t),
                      publicServerValue |-> BigV(B),
                      privateServerValue |-> BigV(gen.val) ]
             old == IF userID \in DOMAIN m THEN m[userID] ELSE << >>
             put == BackendPut(fault, m, userID,
                        [ k \in DOMAIN old \cup DOMAIN new |->
                            IF k \in DOMAIN new THEN new[k] ELSE old[k] ])
         IN  Ret(NoErr, put.m, put.err, B, Nil, Nil, Nil)

ServerStep1(c, m, t, fault, gen, userID, salt, verifier) ==
    IF userID = "" THEN Fail("the user identity must not be empty", m)
    ELSE IF salt.isNil THEN Fail("the salt must not be nil", m)
    ELSE IF verifier = Nil THEN Fail("the verifier must not be nil", m)
    ELSE IF gen.err THEN Fail("generatePrivateValue", m)
    ELSE ServerStep1Store(m, t, fault, userID,
             ServerPublicValue(c, verifier, gen.val), gen.val)

\* The fields Server.Step2 reads, in order, with the type it asserts.
ServerStep2Fields ==
    << <<"state", "state">>, <<"lastActivity", "time.Time">>,
       <<"publicServerValue", "*big.Int">>, <<"privateServerValue", "*big.Int">> >>

\* Server.Step2 without the check of the state.
ServerStep2CheckAnyState(c, rec, t) ==
    LET rd == ReadFields(rec, ServerStep2Fields)
    IN  IF rd # NoErr THEN rd
        ELSE IF hasTimedOut(c.timeout, rec["lastActivity"].val, t)
             THEN "srp timeout"
        ELSE NoErr

\* The checks of Server.Step2 on the record it got, in order.
ServerStep2Check(c, rec, t) ==
    LET rd == ReadFields(rec, ServerStep2Fields)
    IN  IF rd # NoErr THEN rd
        ELSE IF rec["state"].val # step1
             THEN "state violation: must be in 'step1' state"
        ELSE IF hasTimedOut(c.timeout, rec["lastActivity"].val, t)
             THEN "srp timeout"
        ELSE NoErr

\* Server.Step2 taking u from (B, A) instead of (A, B).
ServerKeyMaterialSwappedU(c, verifier, publicClientValue, publicServerValue, privateServerValue) ==
    LET scramblingParam ==
            computeScramblingParameter(c.grp.Prime, publicServerValue, publicClientValue)
        sessionKey ==
            computeServerSessionKey(c.grp.Prime, verifier, scramblingParam,
                                    publicClientValue, privateServerValue)
        computedM1 ==
            computeClientEvidence(publicClientValue, publicServerValue, sessionKey)
    IN  [ scramblingParam |-> scramblingParam,
          sessionKey |-> sessionKey,
          computedM1 |-> computedM1 ]

\* u, S and the expected M1 as Server.Step2 computes them.
ServerKeyMaterial(c, verifier, publicClientValue, publicServerValue, privateServerValue) ==
    LET scramblingParam ==
            computeScramblingParameter(c.grp.Prime, publicClientValue, publicServerValue)
        sessionKey ==
            computeServerSessionKey(c.grp.Prime, verifier, scramblingParam,
                                    publicClientValue, privateServerValue)
        computedM1 ==
            computeClientEvidence(publicClientValue, publicServerValue, sessionKey)
    IN  [ scramblingParam |-> scramblingParam,
          sessionKey |-> sessionKey,
          computedM1 |-> computedM1 ]

\* Server.Step2 deleting the session when the evidence does not match.
ServerStep2FinishDeleteOnMismatch(m, fault, userID, publicClientValue, clientEvidence, km) ==
    LET serverEvidence ==
            computeServerEvidence(publicClientValue, clientEvidence, km.sessionKey)
        del == BackendDelete(fault, m, userID)
    IN  IF km.computedM1 # clientEvidence THEN Fail("bad client credentials", del.m)
        ELSE Ret(NoErr, del.m, del.err, Nil, Nil, Nil, serverEvidence)

\* Server.Step2 returning M2 without comparing the evidence.
ServerStep2FinishNoCompare(m, fault, userID, publicClientValue, clientEvidence, km) ==
    LET serverEvidence ==
            computeServerEvidence(publicClientValue, clientEvidence, km.sessionKey)
        del == BackendDelete(fault, m, userID)
    IN  Ret(NoErr, del.m, del.err, Nil, Nil, Nil, serverEvidence)

\* The end of Server.Step2: the evidence is compared, M2 computed and the
\* session deleted, the error of Delete discarded.
ServerStep2Finish(m, fault, userID, publicClientValue, clientEvidence, km) ==
    IF km.computedM1 # clientEvidence THEN Fail("bad client credentials", m)
    ELSE LET serverEvidence ==
                 computeServerEvidence(publicClientValue, clientEvidence, km.sessionKey)
             del == BackendDelete(fault, m, userID)
         IN  Ret(NoErr, del.m, del.err, Nil, Nil, Nil, serverEvidence)

\* Server.Step2 getting the session before it checks its arguments.
ServerStep2GetFirst(c, m, t, fault, userID, salt, verifier, publicClientValue, clientEvidence) ==
    LET got == BackendGet(fault, m, userID)
    IN  IF got.err
        THEN Fail("could not get SRP data from backend during step2", m)
        ELSE IF userID = "" THEN Fail("the user identity must not be empty", m)
        ELSE IF salt.isNil THEN Fail("the salt must not be nil", m)
        ELSE IF verifier = Nil THEN Fail("the verifier must not be nil", m)
        ELSE IF clientEvidence = Nil
             THEN Fail("the client evidence message must not be nil", m)
        ELSE IF ~isValidPublicValue(c.grp.Prime, publicClientValue)
             THEN Fail("bad client public value", m)
        ELSE LET chk == ServerStep2Check(c, got.val, t)
             IN  IF chk # NoErr THEN Fail(chk, m)
                 ELSE ServerStep2Finish(m, fault, userID, publicClientValue,
                          clientEvidence,
                          ServerKeyMaterial(c, verifier, publicClientValue,
                              got.val["publicServerValue"].val,
                              got.val["privateServerValue"].val))

\* Server.Step2 rejecting an empty salt as it rejects a nil one.
ServerStep2RejectsEmptySalt(c, m, t, fault, userID, salt, verifier, publicClientValue, clientEvidence) ==
    IF userID = "" THEN Fail("the user identity must not be empty", m)
    ELSE IF salt.isNil \/ Len(salt.bytes) = 0 THEN Fail("the salt must not be nil", m)
    ELSE IF verifier = Nil THEN Fail("the verifier must not be nil", m)
    ELSE IF clientEvidence = Nil
         THEN Fail("the client evidence message must not be nil", m)
    ELSE IF ~isValidPublicValue(c.grp.Prime, publicClientValue)
         THEN Fail("bad client public value", m)
    ELSE LET got == BackendGet(fault, m, userID)
         IN  IF got.err
             THEN Fail("could not get SRP data from backend during step2", m)
             ELSE LET chk == ServerStep2Check(c, got.val, t)
                  IN  IF chk # NoErr THEN Fail(chk, m)
                      ELSE ServerStep2Finish(m, fault, userID, publicClientValue,
                               clientEvidence,
                               ServerKeyMaterial(c, verifier, publicClientValue,
                                   got.val["publicServerValue"].val,
                                   got.val["privateServerValue"].val))

\* Server.Step2 refreshing lastActivity when the evidence does not match.
ServerStep2TouchesOnMismatch(c, m, t, fault, userID, salt, verifier, publicClientValue, clientEvidence) ==
    IF userID = "" THEN Fail("the user identity must not be empty", m)
    ELSE IF salt.isNil THEN Fail("the salt must not be nil", m)
    ELSE IF verifier = Nil THEN Fail("the verifier must not be nil", m)
    ELSE IF clientEvidence = Nil
         THEN Fail("the client evidence message must not be nil", m)
    ELSE IF ~isValidPublicValue(c.grp.Prime, publicClientValue)
         THEN Fail("bad client public value", m)
    ELSE LET got == BackendGet(fault, m, userID)
         IN  IF got.err
             THEN Fail("could not get SRP data from backend during step2", m)
             ELSE LET chk == ServerStep2Check(c, got.val, t)
                  IN  IF chk # NoErr THEN Fail(chk, m)
                      ELSE LET r == ServerStep2Finish(m, fault, userID,
                                        publicClientValue, clientEvidence,
                                        ServerKeyMaterial(c, verifier, publicClientValue,
                                            got.val["publicServerValue"].val,
                                            got.val["privateServerValue"].val))
                           IN  IF r.err = NoErr THEN r
                               ELSE Fail(r.err,
                                         Put(m, userID,
                                             [got.val EXCEPT !["lastActivity"] = TimeV(t)]))

ServerStep2(c, m, t, fault, userID, salt, verifier, publicClientValue, clientEvidence) ==
    IF userID = "" THEN Fail("the user identity must not be empty", m)
    ELSE IF salt.isNil THEN Fail("the salt must not be nil", m)
    ELSE IF verifier = Nil THEN Fail("the verifier must not be nil", m)
    ELSE IF clientEvidence = Nil
         THEN Fail("the client evidence message must not be nil", m)
    ELSE IF ~isValidPublicValue(c.grp.Prime, publicClientValue)
         THEN Fail("bad client public value", m)
    ELSE LET got == BackendGet(fault, m, userID)
         IN  IF got.err
             THEN Fail("could not get SRP data from backend during step2", m)
             ELSE LET chk == ServerStep2Check(c, got.val, t)
                  IN  IF chk # NoErr THEN Fail(chk, m)
                      ELSE ServerStep2Finish(m, fault, userID, publicClientValue,
                               clientEvidence,
                               ServerKeyMaterial(c, verifier, publicClientValue,
                                   got.val["publicServerValue"].val,
                                   got.val["privateServerValue"].val))

-----------------------------------------------------------------------------
(* Construction. NewClient and NewServer apply the options to the object:  *)
(* the group, the X function, the timeout (the hash is the model's Hash).  *)
(* role names the object a behaviour exercises; a Client and a Server have *)
(* each their own backend and share no state.                              *)

ComputeXs == {"computeXWithoutUsername", "computeXWithUsername"}
Timeouts == {0, 1}

NewObject(role, grp, fx, timeout) ==
    [role |-> role, grp |-> grp, computeX |-> fx, timeout |-> timeout]

\* The objects of Spec: on the smallest group; the Server never calls its X
\* function, so it keeps the default.
ObjectGroups == { [Prime |-> 5, Generator |-> 2] }

ObjectConfigs ==
    { NewObject("Client", grp, fx, t) :
        grp \in ObjectGroups, fx \in ComputeXs, t \in Timeouts }
    \cup { NewObject("Server", grp, "computeXWithoutUsername", t) :
        grp \in ObjectGroups, t \in Timeouts }

-----------------------------------------------------------------------------
(* The arguments callers pass.                                             *)

\* Public values: nil, 0 and N (not valid) and the residues 1 .. N-1.
PublicValues(c) == {Nil} \cup 0..c.grp.Prime

\* Verifiers: nil, and the verifiers registered for the users of the model.
Verifiers(c) ==
    {Nil} \cup { GenerateVerifier(c, salt, userID, password) :
                    salt \in Salts \ {NilSalt}, userID \in UserIDs \ {""},
                    password \in Passwords \ {""} }
Evidences == {Nil} \cup 0..(HashRange - 1)

-----------------------------------------------------------------------------
(* Events.                                                                 *)

Event(op, userID, r) ==
    [ op |-> op, userID |-> userID, err |-> r.err, ignoredErr |-> r.ignoredErr,
      publicServerValue |-> r.publicServerValue,
      publicClientValue |-> r.publicClientValue,
      clientEvidence |-> r.clientEvidence,
      serverEvidence |-> r.serverEvidence ]

NoEvent(op) == Event(op, "", Fail(NoErr, NewMemoryBackend))

HsIdle == [pc |-> "idle"]
KernIdle == [pc |-> "idle"]

-----------------------------------------------------------------------------
(* The calls.                                                              *)

ClientStep1Call(fault, userID, password) ==
    LET r == ClientStep1(cfg, clientBackend, now, fault, userID, password)
    IN  /\ clientBackend' = r.backend
        /\ last' = Event("Client.Step1", userID, r)
        /\ UNCHANGED <<cfg, serverBackend, now, hs, kern>>

ClientStep2Call(fault, gen, userID, salt, publicServerValue) ==
    LET r == ClientStep2(cfg, clientBackend, now, fault, gen, userID, salt,
                         publicServerValue)
    IN  /\ clientBackend' = r.backend
        /\ last' = Event("Client.Step2", userID, r)
        /\ UNCHANGED <<cfg, serverBackend, now, hs, kern>>

ClientStep3Call(fault, userID, serverEvidence) ==
    LET r == ClientStep3(cfg, clientBackend, now, fault, userID, serverEvidence)
    IN  /\ clientBackend' = r.backend
        /\ last' = Event("Client.Step3", userID, r)
        /\ UNCHANGED <<cfg, serverBackend, now, hs, kern>>

ServerStep1Call(fault, gen, userID, salt, verifier) ==
    LET r == ServerStep1(cfg, serverBackend, now, fault, gen, userID, salt, verifier)
    IN  /\ serverBackend' = r.backend
        /\ last' = Event("Server.Step1", userID, r)
        /\ UNCHANGED <<cfg, clientBackend, now, hs, kern>>

ServerStep2Call(fault, userID, salt, verifier, publicClientValue, clientEvidence) ==
    LET r == ServerStep2(cfg, serverBackend, now, fault, userID, salt, verifier,
                         publicClientValue, clientEvidence)
    IN  /\ serverBackend' = r.backend
        /\ last' = Event("Server.Step2", userID, r)
        /\ UNCHANGED <<cfg, clientBackend, now, hs, kern>>

\* Time passes.
Tick ==
    /\ now < MaxTime
    /\ now' = now + 1
    /\ last' = NoEvent("Tick")
    /\ UNCHANGED <<cfg, clientBackend, serverBackend, hs, kern>>

-----------------------------------------------------------------------------
(* Spec: one object, a Client or a Server, on a MemoryBackend, called with *)
(* any arguments in any order while time passes.                           *)

Init ==
    /\ cfg \in ObjectConfigs
    /\ clientBackend = NewMemoryBackend
    /\ serverBackend = NewMemoryBackend
    /\ now = 0
    /\ last = NoEvent("New")
    /\ hs = HsIdle
    /\ kern = KernIdle

\* faults: the backend calls that may return an error; each step is tried
\* with the faults of the backend calls it makes.
ClientCalls(faults) ==
    /\ cfg.role = "Client"
    /\ \E userID \in UserIDs :
        \/ \E fault \in {"none"} \cup (faults \cap {"Put"}), password \in Passwords :
                ClientStep1Call(fault, userID, password)
        \/ \E fault \in {"none"} \cup (faults \cap {"Get", "Put"}),
              gen \in generatePrivateValue(cfg.grp.Prime), salt \in Salts,
              publicServerValue \in PublicValues(cfg) :
                ClientStep2Call(fault, gen, userID, salt, publicServerValue)
        \/ \E fault \in {"none"} \cup (faults \cap {"Get", "Delete"}),
              serverEvidence \in Evidences :
                ClientStep3Call(fault, userID, serverEvidence)

ServerCalls(faults) ==
    /\ cfg.role = "Server"
    /\ \E userID \in UserIDs, salt \in Salts, verifier \in Verifiers(cfg) :
        \/ \E fault \in {"none"} \cup (faults \cap {"Put"}),
              gen \in generatePrivateValue(cfg.grp.Prime) :
                ServerStep1Call(fault, gen, userID, salt, verifier)
        \/ \E fault \in {"none"} \cup (faults \cap {"Get", "Delete"}),
              publicClientValue \in PublicValues(cfg), clientEvidence \in Evidences :
                ServerStep2Call(fault, userID, salt, verifier, publicClientValue,
                                clientEvidence)

Next ==
    \/ ClientCalls({})
    \/ ServerCalls({})
    \/ Tick

Spec == Init /\ [][Next]_vars

-----------------------------------------------------------------------------
(* SpecForeign: the same object on a backend the application also writes:  *)
(* it may put records of its own under a key.                              *)

\* Records that no step writes: the ones of the tests (state initial, and a
\* step1 record carrying the fields of step2), a record without state, and
\* one whose state is not of type state.
ForeignRecords ==
    { [ state |-> StateV(initial), lastActivity |-> TimeV(0),
        password |-> StrV("pw") ],
      [ state |-> StateV(initial), lastActivity |-> TimeV(0),
        publicClientValue |-> BigV(1), clientEvidence |-> BigV(1),
        sessionKey |-> BigV(1) ],
      [ state |-> StateV(step1), lastActivity |-> TimeV(0),
        publicClientValue |-> BigV(1), clientEvidence |-> BigV(1),
        sessionKey |-> BigV(1) ],
      [ state |-> StateV(initial), lastActivity |-> TimeV(0),
        publicServerValue |-> BigV(1), privateServerValue |-> BigV(1) ],
      [ state |-> StateV(step2), lastActivity |-> TimeV(0),
        publicServerValue |-> BigV(1), privateServerValue |-> BigV(1) ],
      [ lastActivity |-> TimeV(0), password |-> StrV("pw") ],
      [ state |-> StrV("step1"), lastActivity |-> TimeV(0) ] }

\* The application puts a record of its own under a key.
ForeignPut(userID, rec) ==
    /\ IF cfg.role = "Client"
       THEN clientBackend' = Put(clientBackend, userID, rec)
            /\ UNCHANGED serverBackend
       ELSE serverBackend' = Put(serverBackend, userID, rec)
            /\ UNCHANGED clientBackend
    /\ last' = NoEvent("Backend.Put")
    /\ UNCHANGED <<cfg, now, hs, kern>>

NextForeign ==
    \/ ClientCalls({})
    \/ ServerCalls({})
    \/ \E userID \in UserIDs \ {""}, rec \in ForeignRecords : ForeignPut(userID, rec)
    \/ Tick

SpecForeign == Init /\ [][NextForeign]_vars

-----------------------------------------------------------------------------
(* SpecFaulty: the same object on any implementation of the Backend        *)
(* interface: a call of Get, Put or Delete may return an error.            *)

NextFaulty ==
    \/ ClientCalls(BackendFaults)
    \/ ServerCalls(BackendFaults)
    \/ Tick

SpecFaulty == Init /\ [][NextFaulty]_vars

-----------------------------------------------------------------------------
(* Properties of the steps of one object.                                  *)

StateViolationStep1 == "state violation: must be in 'step1' state"
StateViolationStep2 == "state violation: must be in 'step2' state"

\* The errors of the checks of the arguments, which come first in a step.
ArgumentErrors ==
    { "the user identity must not be empty", "the user password must not be empty",
      "the salt must not be nil", "the verifier must not be nil",
      "the server evidence message must not be nil",
      "the client evidence message must not be nil",
      "bad server public value", "bad client public value" }

\* The state of the record under userID in m, if there is one.
StateOf(m, userID) ==
    IF userID \in DOMAIN m /\ "state" \in DOMAIN m[userID]
    THEN m[userID]["state"]
    ELSE [kind |-> "none", val |-> ""]

\* A step that requires state st, called on backend m and leaving m2.
StepNeedsState(m, m2, userID, st, err) ==
    /\ err = NoErr => StateOf(m, userID) = StateV(st)
    /\ (userID \in DOMAIN m /\ StateOf(m, userID) # StateV(st)) =>
           (err # NoErr /\ m2 = m)

\* C3: strict state transitions. Client.Step2 succeeds only if the record
\* stored under I has state step1, Client.Step3 only if it has state step2,
\* Server.Step2 only if it has state step1; a call that finds any other state
\* returns an error and leaves the stored record as it was.
C3_StrictStateTransitions ==
    [][ /\ last'.op = "Client.Step2" =>
              StepNeedsState(clientBackend, clientBackend', last'.userID, step1,
                             last'.err)
        /\ last'.op = "Client.Step3" =>
              StepNeedsState(clientBackend, clientBackend', last'.userID, step2,
                             last'.err)
        /\ last'.op = "Server.Step2" =>
              StepNeedsState(serverBackend, serverBackend', last'.userID, step1,
                             last'.err)
      ]_vars

\* Server.Step2 found a record in state step2 with the fields it reads,
\* reported the state violation and left the record.
C3_Witness ==
    /\ last.op = "Server.Step2"
    /\ last.err = StateViolationStep1
    /\ StateOf(serverBackend, last.userID) = StateV(step2)

\* C4: wrong-state calls report a state violation. On records the library
\* wrote, Client.Step2 called when the record under I is in state step2 and
\* Client.Step3 called when it is in state step1 fail with the
\* state-violation error (unless an argument is rejected first), not with
\* another kind of error.
C4_WrongStateIsStateViolation ==
    [][ /\ (/\ last'.op = "Client.Step2"
            /\ StateOf(clientBackend, last'.userID) = StateV(step2))
               => last'.err \in ArgumentErrors \cup {StateViolationStep1}
        /\ (/\ last'.op = "Client.Step3"
            /\ StateOf(clientBackend, last'.userID) = StateV(step1))
               => last'.err \in ArgumentErrors \cup {StateViolationStep2}
      ]_vars

StepOps ==
    {"Client.Step1", "Client.Step2", "Client.Step3", "Server.Step1", "Server.Step2"}

\* C5: a failed step never changes stored state. For each step, every input
\* and every content of the backend, if the call returns an error the content
\* of the backend after the call is the content before it.
C5_FailedStepKeepsBackend ==
    [][ (last'.op \in StepOps /\ last'.err # NoErr) =>
            (clientBackend' = clientBackend /\ serverBackend' = serverBackend)
      ]_vars

\* Client.Step3 rejected the evidence of the server and the session in state
\* step2 is still stored.
C5_Witness ==
    /\ last.op = "Client.Step3"
    /\ last.err = "bad server credentials"
    /\ StateOf(clientBackend, last.userID) = StateV(step2)

\* The backend of the object that made the last call.
BackendOf(op) ==
    IF op \in {"Client.Step1", "Client.Step2", "Client.Step3"}
    THEN clientBackend ELSE serverBackend

\* C6: Put failures are propagated. If Put returns an error during
\* Client.Step1, Server.Step1 or Client.Step2 the step returns an error;
\* equivalently, a step that returns success has its record stored under I.
C6_PutFailuresPropagated ==
    last.op \in {"Client.Step1", "Server.Step1", "Client.Step2"} =>
        /\ last.ignoredErr => last.err # NoErr
        /\ last.err = NoErr =>
               StateOf(BackendOf(last.op), last.userID) =
                   StateV(IF last.op = "Client.Step2" THEN step2 ELSE step1)

\* C7: Delete failures are propagated. If Delete returns an error during
\* Server.Step2 or Client.Step3 the step returns an error, and does not
\* report success with the session record still present.
C7_DeleteFailuresPropagated ==
    last.op \in {"Server.Step2", "Client.Step3"} =>
        /\ last.ignoredErr => last.err # NoErr
        /\ ~(last.err = NoErr /\ last.userID \in DOMAIN BackendOf(last.op))

\* A session of a single use: after finalOp succeeds no record is under I,
\* the ops that read the session fail while there is none, and only a
\* successful firstOp stores one.
SingleUse(m, m2, firstOp, readOps, finalOp) ==
    /\ (last'.op = finalOp /\ last'.err = NoErr) => last'.userID \notin DOMAIN m2
    /\ (last'.op \in readOps /\ last'.userID \notin DOMAIN m) => last'.err # NoErr
    /\ \A userID \in UserIDs :
           (userID \notin DOMAIN m /\ userID \in DOMAIN m2) =>
               (last'.op = firstOp /\ last'.userID = userID /\ last'.err = NoErr)

\* C8: server sessions are single-use. After Server.Step2 returns M2 no
\* record exists under I in the backend of the server, and any further
\* Server.Step2 for I fails until Server.Step1 is called for I again.
C8_ServerSessionSingleUse ==
    [][ SingleUse(serverBackend, serverBackend', "Server.Step1",
                  {"Server.Step2"}, "Server.Step2") ]_vars

\* C9: client sessions are single-use. After Client.Step3 returns without
\* error no record exists under I in the backend of the client, and any
\* further Client.Step2 or Client.Step3 for I fails until Client.Step1 is
\* called for I again.
C9_ClientSessionSingleUse ==
    [][ SingleUse(clientBackend, clientBackend', "Client.Step1",
                  {"Client.Step2", "Client.Step3"}, "Client.Step3") ]_vars

-----------------------------------------------------------------------------
(* SpecHandshake: an application that runs one authentication, as the      *)
(* test of the full exchange does: a Verifier, a Client and a Server built *)
(* with the same options, each step's results carried to the next step.    *)
(* The client may log in with another password than the registered one,    *)
(* and the network may deliver another A and M1 than the client sent.      *)

\* The groups of the handshake: the two smaller ones.
HandshakeGroups == { grp \in Groups : grp.Prime < 11 }

HandshakeConfigs ==
    { NewObject("Handshake", grp, fx, t) :
        grp \in HandshakeGroups, fx \in ComputeXs, t \in Timeouts }

\* The locals of the application. late: a step was called after the timeout
\* of the session it reads had elapsed. sent: A and M1 were delivered.
HsNew ==
    [ pc |-> "new", userID |-> "alice", salt |-> Salt1, password |-> "",
      verifier |-> Nil, login |-> "", late |-> FALSE,
      B |-> Nil, A |-> Nil, M1 |-> Nil,
      sent |-> FALSE, sentA |-> Nil, sentM1 |-> Nil, M2 |-> Nil ]

InitHandshake ==
    /\ cfg \in HandshakeConfigs
    /\ hs = HsNew
    /\ clientBackend = NewMemoryBackend
    /\ serverBackend = NewMemoryBackend
    /\ now = 0
    /\ last = NoEvent("New")
    /\ kern = KernIdle

\* Whether the session under userID in m has timed out at the present time.
HsLate(m, userID) ==
    /\ userID \in DOMAIN m
    /\ hasTimedOut(cfg.timeout, m[userID]["lastActivity"].val, now)

\* v = GenerateVerifier(s, I, P)
HsRegister(password) ==
    /\ hs.pc = "new"
    /\ hs' = [ hs EXCEPT !.pc = "registered", !.password = password,
                  !.verifier = GenerateVerifier(cfg, hs.salt, hs.userID, password) ]
    /\ last' = NoEvent("GenerateVerifier")
    /\ UNCHANGED <<cfg, clientBackend, serverBackend, now, kern>>

\* Client.Step1(I, P)
HsClientStep1(password) ==
    /\ hs.pc = "registered"
    /\ LET r == ClientStep1(cfg, clientBackend, now, "none", hs.userID, password)
       IN  /\ clientBackend' = r.backend
           /\ last' = Event("Client.Step1", hs.userID, r)
           /\ hs' = [ hs EXCEPT !.pc = IF r.err = NoErr THEN "c1" ELSE "failed",
                         !.login = password ]
    /\ UNCHANGED <<cfg, serverBackend, now, kern>>

\* B = Server.Step1(I, s, v)
HsServerStep1(gen) ==
    /\ hs.pc = "c1"
    /\ LET r == ServerStep1(cfg, serverBackend, now, "none", gen, hs.userID,
                            hs.salt, hs.verifier)
       IN  /\ serverBackend' = r.backend
           /\ last' = Event("Server.Step1", hs.userID, r)
           /\ hs' = [ hs EXCEPT !.pc = IF r.err = NoErr THEN "s1" ELSE "failed",
                         !.B = r.publicServerValue ]
    /\ UNCHANGED <<cfg, clientBackend, now, kern>>

\* (A, M1) = Client.Step2(I, s, B)
HsClientStep2(gen) ==
    /\ hs.pc = "s1"
    /\ LET r == ClientStep2(cfg, clientBackend, now, "none", gen, hs.userID,
                            hs.salt, hs.B)
       IN  /\ clientBackend' = r.backend
           /\ last' = Event("Client.Step2", hs.userID, r)
           /\ hs' = [ hs EXCEPT !.pc = IF r.err = NoErr THEN "c2" ELSE "failed",
                         !.late = hs.late \/ HsLate(clientBackend, hs.userID),
                         !.A = r.publicClientValue, !.M1 = r.clientEvidence ]
    /\ UNCHANGED <<cfg, serverBackend, now, kern>>

\* M2 = Server.Step2(I, s, v, A, M1), with the A and M1 delivered
HsServerStep2(publicClientValue, clientEvidence) ==
    /\ hs.pc = "c2"
    /\ LET r == ServerStep2(cfg, serverBackend, now, "none", hs.userID, hs.salt,
                            hs.verifier, publicClientValue, clientEvidence)
       IN  /\ serverBackend' = r.backend
           /\ last' = Event("Server.Step2", hs.userID, r)
           /\ hs' = [ hs EXCEPT !.pc = IF r.err = NoErr THEN "s2" ELSE "failed",
                         !.late = hs.late \/ HsLate(serverBackend, hs.userID),
                         !.sent = TRUE, !.sentA = publicClientValue,
                         !.sentM1 = clientEvidence, !.M2 = r.serverEvidence ]
    /\ UNCHANGED <<cfg, clientBackend, now, kern>>

\* Client.Step3(I, M2)
HsClientStep3 ==
    /\ hs.pc = "s2"
    /\ LET r == ClientStep3(cfg, clientBackend, now, "none", hs.userID, hs.M2)
       IN  /\ clientBackend' = r.backend
           /\ last' = Event("Client.Step3", hs.userID, r)
           /\ hs' = [ hs EXCEPT !.pc = IF r.err = NoErr THEN "done" ELSE "failed",
                         !.late = hs.late \/ HsLate(clientBackend, hs.userID) ]
    /\ UNCHANGED <<cfg, serverBackend, now, kern>>

\* Time passes while a session is open.
HsTick ==
    /\ hs.pc \in {"c1", "s1", "c2", "s2"}
    /\ Tick

NextHandshake ==
    \/ \E password \in Passwords \ {""} : HsRegister(password)
    \/ \E password \in Passwords \ {""} : HsClientStep1(password)
    \/ \E gen \in generatePrivateValue(cfg.grp.Prime) : HsServerStep1(gen)
    \/ \E gen \in generatePrivateValue(cfg.grp.Prime) : HsClientStep2(gen)
    \/ \E publicClientValue \in PublicValues(cfg), clientEvidence \in Evidences :
            HsServerStep2(publicClientValue, clientEvidence)
    \/ HsClientStep3
    \/ HsTick

SpecHandshake == InitHandshake /\ [][NextHandshake]_vars

\* The handshake of the claim: the client logs in with the registered
\* password and the server gets the A and M1 the client sent.
HsHonest ==
    /\ hs.login \in {"", hs.password}
    /\ hs.sent => (hs.sentA = hs.A /\ hs.sentM1 = hs.M1)

HsSessionsDeleted ==
    /\ hs.userID \notin DOMAIN clientBackend
    /\ hs.userID \notin DOMAIN serverBackend

\* C1 as stated: with the same options on the three objects, the registered
\* password and no timeout elapsing, the handshake succeeds at every step for
\* every private value a and b in [1, N-1], and afterwards neither backend
\* holds a record under I.
C1_HandshakeSucceeds ==
    (HsHonest /\ ~hs.late) =>
        /\ hs.pc # "failed"
        /\ hs.pc = "done" => HsSessionsDeleted

\* C1 as amended: with the same options on the three objects, the registered
\* password and no timeout elapsing, the handshake succeeds at every step for
\* every private value a and every private value b for which
\* B = (k*v + g^b) mod N is not 0, and afterwards neither backend holds a
\* record under I; for the b with B = 0, Client.Step2 rejects B.
C1_HandshakeSucceedsUnlessBIsZero ==
    (HsHonest /\ ~hs.late) =>
        /\ (hs.B = Nil \/ hs.B % cfg.grp.Prime # 0) => hs.pc # "failed"
        /\ (hs.B # Nil /\ hs.B % cfg.grp.Prime = 0) => hs.pc \in {"s1", "failed"}
        /\ hs.pc = "failed" =>
               (last.op = "Client.Step2" /\ last.err = "bad server public value")
        /\ hs.pc = "done" => HsSessionsDeleted

\* A handshake under a timeout that ran to its end with both sessions
\* deleted, and with time passing between its steps.
C1_Witness ==
    /\ hs.pc = "done"
    /\ HsHonest
    /\ ~hs.late
    /\ cfg.timeout # 0
    /\ now > 0
    /\ HsSessionsDeleted
    /\ last.op = "Client.Step3"
    /\ last.err = NoErr

\* C10: Server.Step2 returns M2 only for correct evidence. With I, s and v
\* valid and the record under I in state step1: Server.Step2(I, s, v, A, M1)
\* succeeds if and only if A is valid, M1 is not nil, the session has not
\* timed out and M1 = H(A | B | S), where B and b are the values stored under
\* I by Server.Step1, u = H(PAD(A) | PAD(B)) and S = (A * v^u)^b mod N; when
\* only the last condition fails the error is "bad client credentials", and
\* no failure returns an M2.
C10_ServerStep2OnlyForCorrectEvidence ==
    [][ (hs.pc = "c2" /\ hs'.pc # "c2") =>
          LET rec == serverBackend[hs.userID]
              N == cfg.grp.Prime
              A == hs'.sentA
              M1 == hs'.sentM1
              B == rec["publicServerValue"].val
              b == rec["privateServerValue"].val
              u == Hash(getPadded(A, Len(Bytes(N))) \o getPadded(B, Len(Bytes(N))))
              S == ModExp((A * ModExp(hs.verifier, u, N)) % N, b, N)
              pre == /\ isValidPublicValue(N, A)
                     /\ M1 # Nil
                     /\ rec["state"] = StateV(step1)
                     /\ ~hasTimedOut(cfg.timeout, rec["lastActivity"].val, now)
          IN  /\ last'.op = "Server.Step2"
              /\ (last'.err = NoErr) <=> (pre /\ M1 = Hash(Bytes(A) \o Bytes(B) \o Bytes(S)))
              /\ (pre /\ M1 # Hash(Bytes(A) \o Bytes(B) \o Bytes(S)))
                     => last'.err = "bad client credentials"
              /\ last'.err # NoErr => last'.serverEvidence = Nil
              /\ last'.err = NoErr =>
                     last'.serverEvidence = Hash(Bytes(A) \o Bytes(M1) \o Bytes(S))
      ]_vars

\* Server.Step2 rejected an evidence other than the client's for the
\* client's A, before any timeout.
C10_Witness ==
    /\ hs.pc = "failed"
    /\ last.op = "Server.Step2"
    /\ last.err = "bad client credentials"
    /\ hs.login = hs.password
    /\ hs.sentA = hs.A
    /\ hs.sentM1 # Nil
    /\ hs.sentM1 # hs.M1
    /\ ~hs.late

-----------------------------------------------------------------------------
(* SpecKernel: the computations of one exchange on their own, as the test  *)
(* of the RFC 5054 vector runs them: from x, a and b, the verifier and the *)
(* public values, then the session key of each side.                       *)

\* The values x can take: the values of the hash.
XValues == 0..(HashRange - 1)

KernelConfigs ==
    { NewObject("Kernel", grp, "computeXWithoutUsername", 0) : grp \in Groups }

KernelInputs(c) ==
    { [ pc |-> "inputs", x |-> x, a |-> a.val, b |-> b.val,
        verifier |-> Nil, A |-> Nil, B |-> Nil, u |-> Nil,
        clientKey |-> Nil, serverKey |-> Nil ] :
        x \in XValues, a \in generatePrivateValue(c.grp.Prime),
        b \in generatePrivateValue(c.grp.Prime) }

InitKernel ==
    /\ cfg \in KernelConfigs
    /\ kern \in KernelInputs(cfg)
    /\ clientBackend = NewMemoryBackend
    /\ serverBackend = NewMemoryBackend
    /\ now = 0
    /\ last = NoEvent("New")
    /\ hs = HsIdle

\* v = g^x, A = g^a, B = k*v + g^b.
KernelExchange ==
    /\ kern.pc = "inputs"
    /\ LET verifier == computeVerifier(cfg.grp.Prime, cfg.grp.Generator, kern.x)
       IN  kern' = [ kern EXCEPT
                       !.pc = "exchanged",
                       !.verifier = verifier,
                       !.A = computePublicClientValue(cfg.grp.Prime,
                                 cfg.grp.Generator, kern.a),
                       !.B = ServerPublicValue(cfg, verifier, kern.b) ]
    /\ UNCHANGED <<cfg, clientBackend, serverBackend, now, last, hs>>

\* The session key of the client and the one of the server.
KernelKeys ==
    /\ kern.pc = "exchanged"
    /\ LET ckm == ClientKeyMaterial(cfg, kern.x, kern.a, kern.B)
           skm == ServerKeyMaterial(cfg, kern.verifier, kern.A, kern.B, kern.b)
       IN  kern' = [ kern EXCEPT
                       !.pc = "done",
                       !.u = skm.scramblingParam,
                       !.clientKey = ckm.sessionKey,
                       !.serverKey = skm.sessionKey ]
    /\ UNCHANGED <<cfg, clientBackend, serverBackend, now, last, hs>>

NextKernel ==
    \/ KernelExchange
    \/ KernelKeys

SpecKernel == InitKernel /\ [][NextKernel]_vars

\* C2: session-key agreement. For every group, every x with v = g^x mod N
\* and every private values a and b in [1, N-1], with A = g^a mod N,
\* B = (k*v + g^b) mod N and the same u on both sides, the key of the client
\* (B - k*g^x)^(a + u*x) mod N equals the key of the server (A * v^u)^b mod N.
C2_SessionKeyAgreement ==
    kern.pc = "done" =>
        LET N == cfg.grp.Prime
            g == cfg.grp.Generator
            k == computeMultiplier(N, g)
            u == computeScramblingParameter(N, kern.A, kern.B)
        IN  /\ kern.verifier = ModExp(g, kern.x, N)
            /\ kern.A = ModExp(g, kern.a, N)
            /\ kern.B = (k * kern.verifier + ModExp(g, kern.b, N)) % N
            /\ kern.u = u
            /\ kern.clientKey =
                   ModExp((kern.B - k * ModExp(g, kern.x, N)) % N,
                          kern.a + u * kern.x, N)
            /\ kern.serverKey =
                   ModExp((kern.A * ModExp(kern.verifier, u, N)) % N, kern.b, N)
            /\ kern.clientKey = kern.serverKey

\* The keys agree on a value other than 0 and 1, with x and u not 0 and
\* B less than k*g^x, so that the subtraction wraps around N.
C2_Witness ==
    /\ kern.pc = "done"
    /\ kern.x > 0
    /\ kern.u > 0
    /\ kern.B < (computeMultiplier(cfg.grp.Prime, cfg.grp.Generator)
                   * kern.verifier) % cfg.grp.Prime
    /\ kern.clientKey = kern.serverKey
    /\ kern.clientKey > 1

-----------------------------------------------------------------------------
(* Properties of a step for every argument it can be called with, in every *)
(* state the object reaches.                                               *)

\* The session of userID in m is in state st and has not timed out.
SessionOpen(m, userID, st) ==
    /\ userID \in DOMAIN m
    /\ StateOf(m, userID) = StateV(st)
    /\ ~hasTimedOut(cfg.timeout, m[userID]["lastActivity"].val, now)

\* M2 = H(A | M1 | S) from the A, M1 and S of the record rec.
ExpectedM2(rec) ==
    Hash(Bytes(rec["publicClientValue"].val) \o Bytes(rec["clientEvidence"].val)
         \o Bytes(rec["sessionKey"].val))

\* C11: Client.Step3 accepts only the correct server evidence.
\* Client.Step3(I, M2) succeeds if and only if I is not empty, M2 is not nil,
\* the record under I is in state step2 and has not timed out, and M2 equals
\* H(A | M1 | S) computed from the A, M1 and S that Client.Step2 stored.
C11_ClientStep3OnlyForCorrectEvidence ==
    cfg.role = "Client" =>
        \A userID \in UserIDs, serverEvidence \in Evidences :
            LET r == ClientStep3(cfg, clientBackend, now, "none", userID,
                                 serverEvidence)
            IN  (r.err = NoErr) <=>
                    /\ userID # ""
                    /\ serverEvidence # Nil
                    /\ SessionOpen(clientBackend, userID, step2)
                    /\ serverEvidence = ExpectedM2(clientBackend[userID])

\* Client.Step3 accepted an evidence, under a timeout and after time passed.
C11_Witness ==
    /\ last.op = "Client.Step3"
    /\ last.err = NoErr
    /\ last.userID \notin DOMAIN clientBackend
    /\ cfg.timeout # 0
    /\ now > 0

\* M1 = H(A | B | S) with u = H(PAD(A) | PAD(B)) and S = (A * v^u)^b mod N,
\* from the B and b of the record rec.
ExpectedM1(rec, verifier, publicClientValue) ==
    LET N == cfg.grp.Prime
        B == rec["publicServerValue"].val
        b == rec["privateServerValue"].val
        u == Hash(getPadded(publicClientValue, Len(Bytes(N)))
                  \o getPadded(B, Len(Bytes(N))))
        S == ModExp((publicClientValue * ModExp(verifier, u, N)) % N, b, N)
    IN  Hash(Bytes(publicClientValue) \o Bytes(B) \o Bytes(S))

\* The times from the present on at which the session of rec is not timed out.
TimesInWindow(rec) ==
    { t \in now..MaxTime : ~hasTimedOut(cfg.timeout, rec["lastActivity"].val, t) }

\* C12: a tampered M1 leaves the server session usable. When Server.Step2
\* fails because M1 does not match, the record under I is neither deleted nor
\* modified, and a later Server.Step2 for I with the correct M1, within the
\* timeout window, succeeds.
C12_TamperedM1KeepsServerSession ==
    /\ [][ (last'.op = "Server.Step2" /\ last'.err = "bad client credentials") =>
             /\ StateOf(serverBackend, last'.userID) = StateV(step1)
             /\ serverBackend' = serverBackend
         ]_vars
    /\ [](\A userID \in DOMAIN serverBackend :
            SessionOpen(serverBackend, userID, step1) =>
                \A salt \in Salts \ {NilSalt}, verifier \in Verifiers(cfg) \ {Nil},
                   publicClientValue \in 1..(cfg.grp.Prime - 1) :
                    LET r == ServerStep2(cfg, serverBackend, now, "none", userID,
                                salt, verifier, publicClientValue,
                                ExpectedM1(serverBackend[userID], verifier,
                                           publicClientValue))
                    IN  /\ r.err = NoErr
                        /\ r.serverEvidence # Nil)

\* Server.Step2 rejected an evidence under a timeout, the session is still
\* stored in state step1 and its window is still open.
C12_Witness ==
    /\ last.op = "Server.Step2"
    /\ last.err = "bad client credentials"
    /\ cfg.timeout # 0
    /\ SessionOpen(serverBackend, last.userID, step1)
    /\ now > serverBackend[last.userID]["lastActivity"].val

\* C13: a tampered M2 leaves the client session usable. When Client.Step3
\* fails because M2 does not match, the record under I stays in state step2
\* unmodified, and a later Client.Step3 for I with the correct M2, within the
\* timeout window, succeeds.
C13_TamperedM2KeepsClientSession ==
    [][ (last'.op = "Client.Step3" /\ last'.err = "bad server credentials") =>
          /\ StateOf(clientBackend, last'.userID) = StateV(step2)
          /\ clientBackend' = clientBackend
          /\ LET rec == clientBackend'[last'.userID]
             IN  \A t \in TimesInWindow(rec) :
                     LET r == ClientStep3(cfg, clientBackend', t, "none",
                                 last'.userID, ExpectedM2(rec))
                     IN  /\ r.err = NoErr
                         /\ last'.userID \notin DOMAIN r.backend
      ]_vars

\* Client.Step3 rejected an evidence under a timeout, the session is still
\* stored in state step2 and its window is still open.
C13_Witness ==
    /\ last.op = "Client.Step3"
    /\ last.err = "bad server credentials"
    /\ cfg.timeout # 0
    /\ SessionOpen(clientBackend, last.userID, step2)
    /\ now > clientBackend[last.userID]["lastActivity"].val

\* The result r of a call on backend m: an error of the checks of the
\* arguments, the backend as it was and no error of the backend discarded.
Rejected(r, m) ==
    /\ r.err \in ArgumentErrors
    /\ r.backend = m
    /\ ~r.ignoredErr

\* A public value that is nil or 0 modulo N.
BadPublicValue(value) == value = Nil \/ value % cfg.grp.Prime = 0

C14_ClientRejects(fault) ==
    /\ \A userID \in UserIDs, password \in Passwords :
           (userID = "" \/ password = "") =>
               Rejected(ClientStep1(cfg, clientBackend, now, fault, userID, password),
                        clientBackend)
    /\ \A gen \in generatePrivateValue(cfg.grp.Prime), userID \in UserIDs,
          salt \in Salts, publicServerValue \in PublicValues(cfg) :
           (userID = "" \/ salt.isNil \/ BadPublicValue(publicServerValue)) =>
               Rejected(ClientStep2(cfg, clientBackend, now, fault, gen, userID,
                                    salt, publicServerValue),
                        clientBackend)
    /\ \A userID \in UserIDs, serverEvidence \in Evidences :
           (userID = "" \/ serverEvidence = Nil) =>
               Rejected(ClientStep3(cfg, clientBackend, now, fault, userID,
                                    serverEvidence),
                        clientBackend)

C14_ServerRejects(fault) ==
    \A userID \in UserIDs, salt \in Salts, verifier \in Verifiers(cfg) :
        /\ \A gen \in generatePrivateValue(cfg.grp.Prime) :
               (userID = "" \/ salt.isNil \/ verifier = Nil) =>
                   Rejected(ServerStep1(cfg, serverBackend, now, fault, gen, userID,
                                        salt, verifier),
                            serverBackend)
        /\ \A publicClientValue \in PublicValues(cfg), clientEvidence \in Evidences :
               (\/ userID = "" \/ salt.isNil \/ verifier = Nil
                \/ clientEvidence = Nil \/ BadPublicValue(publicClientValue)) =>
                   Rejected(ServerStep2(cfg, serverBackend, now, fault, userID, salt,
                                        verifier, publicClientValue, clientEvidence),
                            serverBackend)

\* C14: input validation precedes any backend access. For every step of
\* Client and Server, a call with an empty identity, an empty password, a nil
\* salt, a nil verifier, a nil evidence or an invalid public value returns a
\* validation error without any Get, Put or Delete on the backend: the result
\* is the same on a backend whose Get, Put or Delete fails.
C14_ValidationBeforeBackend ==
    \A fault \in BackendFaults :
        /\ cfg.role = "Client" => C14_ClientRejects(fault)
        /\ cfg.role = "Server" => C14_ServerRejects(fault)

\* Server.Step2 rejected the public value of the client while a session is
\* stored under I.
C14_Witness ==
    /\ last.op = "Server.Step2"
    /\ last.err = "bad client public value"
    /\ last.userID \in DOMAIN serverBackend

\* The public values of the model and a further multiple of N.
C15_PublicValues == PublicValues(cfg) \cup {2 * cfg.grp.Prime}

\* C15: public-value validation by both peers. Client.Step2 fails for every
\* B with B mod N = 0 (nil, 0, N and any multiple of N) and Server.Step2 for
\* every A with A mod N = 0, before any session key or evidence is computed;
\* values with X mod N # 0 are not rejected by this check.
C15_PublicValueValidation ==
    /\ cfg.role = "Client" =>
        \A gen \in generatePrivateValue(cfg.grp.Prime),
           publicServerValue \in C15_PublicValues :
            LET r == ClientStep2(cfg, clientBackend, now, "none", gen, "alice",
                                 Salt1, publicServerValue)
            IN  /\ (r.err = "bad server public value")
                       <=> BadPublicValue(publicServerValue)
                /\ BadPublicValue(publicServerValue) =>
                       /\ r.publicClientValue = Nil
                       /\ r.clientEvidence = Nil
                       /\ r.backend = clientBackend
    /\ cfg.role = "Server" =>
        \A verifier \in Verifiers(cfg) \ {Nil}, publicClientValue \in C15_PublicValues,
           clientEvidence \in Evidences \ {Nil} :
            LET r == ServerStep2(cfg, serverBackend, now, "none", "alice", Salt1,
                                 verifier, publicClientValue, clientEvidence)
            IN  /\ (r.err = "bad client public value")
                       <=> BadPublicValue(publicClientValue)
                /\ BadPublicValue(publicClientValue) =>
                       /\ r.serverEvidence = Nil
                       /\ r.backend = serverBackend

\* Client.Step2 rejected the public value of the server while the session
\* under I is open in state step1.
C15_Witness ==
    /\ last.op = "Client.Step2"
    /\ last.err = "bad server public value"
    /\ SessionOpen(clientBackend, last.userID, step1)

TimeoutErrors == {"session timeout", "srp timeout"}

\* The results of the steps that check the timeout, for every argument, on
\* the backends as they are.
TimedStepResults ==
    IF cfg.role = "Client"
    THEN { ClientStep2(cfg, clientBackend, now, "none", gen, userID, salt,
                       publicServerValue) :
             gen \in generatePrivateValue(cfg.grp.Prime), userID \in UserIDs,
             salt \in Salts, publicServerValue \in PublicValues(cfg) }
         \cup { ClientStep3(cfg, clientBackend, now, "none", userID, serverEvidence) :
             userID \in UserIDs, serverEvidence \in Evidences }
    ELSE { ServerStep2(cfg, serverBackend, now, "none", userID, salt, verifier,
                       publicClientValue, clientEvidence) :
             userID \in UserIDs, salt \in Salts, verifier \in Verifiers(cfg),
             publicClientValue \in PublicValues(cfg), clientEvidence \in Evidences }

\* C16: timeout zero disables expiry. With timeout = 0, hasTimedOut is false
\* for every lastActivity, and Client.Step2, Client.Step3 and Server.Step2
\* never fail with a timeout error however much time has passed.
C16_TimeoutZeroNeverExpires ==
    cfg.timeout = 0 =>
        /\ \A lastActivity \in 0..MaxTime, t \in 0..MaxTime :
               ~hasTimedOut(cfg.timeout, lastActivity, t)
        /\ \A r \in TimedStepResults : r.err \notin TimeoutErrors
        /\ last.err \notin TimeoutErrors

\* With timeout 0, Client.Step3 went past the check of the timeout, to the
\* comparison of the evidence, on a session last active MaxTime ago.
C16_Witness ==
    /\ cfg.timeout = 0
    /\ last.op = "Client.Step3"
    /\ last.err = "bad server credentials"
    /\ now = MaxTime
    /\ clientBackend[last.userID]["lastActivity"].val = 0

\* The present time is strictly later than lastActivity + T of the record.
Expired(rec) == now > rec["lastActivity"].val + cfg.timeout

\* C17: the timeout rule. With timeout T > 0, Server.Step2, Client.Step2 and
\* Client.Step3, called with valid arguments on a record in the state they
\* require, fail with a timeout error exactly when the present time is
\* strictly later than the lastActivity of the record plus T; at a time equal
\* to or earlier than lastActivity + T the check of the timeout passes.
C17_TimeoutRule ==
    cfg.timeout > 0 =>
        /\ \A userID \in DOMAIN clientBackend :
             LET rec == clientBackend[userID]
             IN  /\ StateOf(clientBackend, userID) = StateV(step1) =>
                       \A gen \in generatePrivateValue(cfg.grp.Prime),
                          publicServerValue \in 1..(cfg.grp.Prime - 1) :
                           (ClientStep2(cfg, clientBackend, now, "none", gen, userID,
                                        Salt1, publicServerValue).err
                                = "session timeout") <=> Expired(rec)
                 /\ StateOf(clientBackend, userID) = StateV(step2) =>
                       \A serverEvidence \in Evidences \ {Nil} :
                           (ClientStep3(cfg, clientBackend, now, "none", userID,
                                        serverEvidence).err
                                = "session timeout") <=> Expired(rec)
        /\ \A userID \in DOMAIN serverBackend :
             StateOf(serverBackend, userID) = StateV(step1) =>
                 \A verifier \in Verifiers(cfg) \ {Nil},
                    publicClientValue \in 1..(cfg.grp.Prime - 1),
                    clientEvidence \in Evidences \ {Nil} :
                     (ServerStep2(cfg, serverBackend, now, "none", userID, Salt1,
                                  verifier, publicClientValue, clientEvidence).err
                          = "srp timeout") <=> Expired(serverBackend[userID])

\* Server.Step2 failed with the timeout error on a session in state step1
\* that was last active more than T ago.
C17_Witness ==
    /\ cfg.timeout > 0
    /\ last.op = "Server.Step2"
    /\ last.err = "srp timeout"
    /\ StateOf(serverBackend, last.userID) = StateV(step1)
    /\ Expired(serverBackend[last.userID])

\* The result r of a Step1 on backend m: success, rec stored under userID
\* and the other keys as they were.
Restarted(r, m, userID, rec) ==
    /\ r.err = NoErr
    /\ DOMAIN r.backend = DOMAIN m \cup {userID}
    /\ r.backend[userID] = rec
    /\ \A k \in DOMAIN m \ {userID} : r.backend[k] = m[k]

\* C18: Step1 restarts a session from any state. Client.Step1(I, P) and
\* Server.Step1(I, s, v) with valid arguments succeed whatever record (none,
\* step1, step2, timed out or foreign) is stored under I, without reading it
\* (a Get that fails changes nothing), and replace it entirely with a fresh
\* step1 record.
C18_Step1Restarts ==
    \A fault \in {"none", "Get"}, userID \in UserIDs \ {""} :
        /\ cfg.role = "Client" =>
             \A password \in Passwords \ {""} :
                 Restarted(ClientStep1(cfg, clientBackend, now, fault, userID,
                                       password),
                           clientBackend, userID,
                           [ state |-> StateV(step1), lastActivity |-> TimeV(now),
                             password |-> StrV(password) ])
        /\ cfg.role = "Server" =>
             \A gen \in generatePrivateValue(cfg.grp.Prime), salt \in Salts \ {NilSalt},
                verifier \in Verifiers(cfg) \ {Nil} :
                 LET N == cfg.grp.Prime
                     g == cfg.grp.Generator
                     B == (computeMultiplier(N, g) * verifier
                           + ModExp(g, gen.val, N)) % N
                     r == ServerStep1(cfg, serverBackend, now, fault, gen, userID,
                                      salt, verifier)
                 IN  /\ Restarted(r, serverBackend, userID,
                           [ state |-> StateV(step1), lastActivity |-> TimeV(now),
                             publicServerValue |-> BigV(B),
                             privateServerValue |-> BigV(gen.val) ])
                     /\ r.publicServerValue = B

\* A timed-out session in state step2 is stored under I, and Client.Step1
\* for I succeeds and leaves a record without the fields of step2.
C18_Witness ==
    /\ cfg.role = "Client"
    /\ StateOf(clientBackend, "alice") = StateV(step2)
    /\ hasTimedOut(cfg.timeout, clientBackend["alice"]["lastActivity"].val, now)
    /\ LET r == ClientStep1(cfg, clientBackend, now, "none", "alice", "pw")
       IN  /\ r.err = NoErr
           /\ DOMAIN r.backend["alice"] = {"state", "lastActivity", "password"}

\* C19: password retention. In every reachable state of the backend of the
\* client the record under I contains the password if and only if its state
\* is step1; after a successful Client.Step2 the stored record no longer
\* contains the password.
C19_PasswordRetention ==
    /\ \A userID \in DOMAIN clientBackend :
           ("password" \in DOMAIN clientBackend[userID])
               <=> (StateOf(clientBackend, userID) = StateV(step1))
    /\ (last.op = "Client.Step2" /\ last.err = NoErr) =>
           \/ last.userID \notin DOMAIN clientBackend
           \/ "password" \notin DOMAIN clientBackend[last.userID]

\* u = H(PAD(A) | PAD(B))
ScramblingParameterOf(publicClientValue, publicServerValue) ==
    Hash(getPadded(publicClientValue, Len(Bytes(cfg.grp.Prime)))
         \o getPadded(publicServerValue, Len(Bytes(cfg.grp.Prime))))

\* C20: the scrambling parameter zero is rejected. Whenever the computed
\* u = H(PAD(A) | PAD(B)) equals 0, Client.Step2 and Server.Step2 fail
\* instead of computing a session key and an evidence with u = 0.
C20_ScramblingParameterZeroRejected ==
    /\ cfg.role = "Client" =>
        \A gen \in generatePrivateValue(cfg.grp.Prime), userID \in UserIDs,
           salt \in Salts, publicServerValue \in 1..(cfg.grp.Prime - 1) :
            LET A == ModExp(cfg.grp.Generator, gen.val, cfg.grp.Prime)
            IN  ScramblingParameterOf(A, publicServerValue) = 0 =>
                    ClientStep2(cfg, clientBackend, now, "none", gen, userID, salt,
                                publicServerValue).err # NoErr
    /\ cfg.role = "Server" =>
        \A userID \in DOMAIN serverBackend, salt \in Salts,
           verifier \in Verifiers(cfg), clientEvidence \in Evidences,
           publicClientValue \in 1..(cfg.grp.Prime - 1) :
            (/\ StateOf(serverBackend, userID) = StateV(step1)
             /\ ScramblingParameterOf(publicClientValue,
                    serverBackend[userID]["publicServerValue"].val) = 0)
                => ServerStep2(cfg, serverBackend, now, "none", userID, salt, verifier,
                               publicClientValue, clientEvidence).err # NoErr

\* What a configured private-value generator returns when it returns 0.
ZeroPrivateValue == [err |-> FALSE, val |-> 0]

\* C21: a private value of 0 is rejected. When the configured generator
\* returns 0, Client.Step2 and Server.Step1 (which call it once) do not
\* produce and store a public value from it: the step fails, or the stored
\* session does not hold b = 0.
C21_ZeroPrivateValueRejected ==
    /\ cfg.role = "Client" =>
        \A userID \in DOMAIN clientBackend, salt \in Salts \ {NilSalt},
           publicServerValue \in 1..(cfg.grp.Prime - 1) :
            LET r == ClientStep2(cfg, clientBackend, now, "none", ZeroPrivateValue,
                                 userID, salt, publicServerValue)
            IN  r.err # NoErr
                \/ r.publicClientValue
                       # computePublicClientValue(cfg.grp.Prime, cfg.grp.Generator, 0)
    /\ cfg.role = "Server" =>
        \A userID \in UserIDs \ {""}, salt \in Salts \ {NilSalt},
           verifier \in Verifiers(cfg) \ {Nil} :
            LET r == ServerStep1(cfg, serverBackend, now, "none", ZeroPrivateValue,
                                 userID, salt, verifier)
            IN  r.err # NoErr
                \/ r.backend[userID]["privateServerValue"].val # 0

\* The steps that write a record, and the lastActivity stored under a key.
WritingOps == {"Client.Step1", "Client.Step2", "Server.Step1"}

LastActivityOf(m, userID) == m[userID]["lastActivity"].val

\* C22: lastActivity never moves backwards. The clock of the model never
\* decreases; every successful Step1 or Client.Step2 leaves under I a record
\* whose lastActivity is the time of the call, and no step of the library
\* replaces a stored lastActivity by an earlier one.
C22_LastActivityMonotonic ==
    [][ LET ofClient == last'.op \in {"Client.Step1", "Client.Step2", "Client.Step3"}
            m == IF ofClient THEN clientBackend ELSE serverBackend
            m2 == IF ofClient THEN clientBackend' ELSE serverBackend'
        IN  last'.op \in StepOps =>
              /\ now' >= now
              /\ (last'.op \in WritingOps /\ last'.err = NoErr) =>
                     /\ last'.userID \in DOMAIN m2
                     /\ LastActivityOf(m2, last'.userID) = now
              /\ \A userID \in DOMAIN m \cap DOMAIN m2 :
                     LastActivityOf(m2, userID) >= LastActivityOf(m, userID)
      ]_vars

-----------------------------------------------------------------------------
(* SpecIdentities: one object with a timeout, on a MemoryBackend, called   *)
(* for two identities in any order while time passes.                      *)

Identities == {"alice", "bob"}

IdentityConfigs == { c \in ObjectConfigs : c.timeout = 1 }

InitIdentities ==
    /\ cfg \in IdentityConfigs
    /\ clientBackend = NewMemoryBackend
    /\ serverBackend = NewMemoryBackend
    /\ now = 0
    /\ last = NoEvent("New")
    /\ hs = HsIdle
    /\ kern = KernIdle

\* The private values drawn and the public values received in SpecIdentities.
IdentityValues == {1, 2}

NextIdentities ==
    \/ /\ cfg.role = "Client"
       /\ \E userID \in Identities :
            \/ ClientStep1Call("none", userID, "pw")
            \/ \E a \in IdentityValues, publicServerValue \in IdentityValues :
                 ClientStep2Call("none", [err |-> FALSE, val |-> a], userID, Salt1,
                                 publicServerValue)
            \/ \E serverEvidence \in Evidences \ {Nil} :
                 ClientStep3Call("none", userID, serverEvidence)
    \/ /\ cfg.role = "Server"
       /\ \E userID \in Identities, verifier \in Verifiers(cfg) \ {Nil} :
            \/ \E b \in IdentityValues :
                 ServerStep1Call("none", [err |-> FALSE, val |-> b], userID, Salt1,
                                 verifier)
            \/ \E publicClientValue \in IdentityValues,
                  clientEvidence \in Evidences \ {Nil} :
                 ServerStep2Call("none", userID, Salt1, verifier, publicClientValue,
                                 clientEvidence)
    \/ Tick

SpecIdentities == InitIdentities /\ [][NextIdentities]_vars

\* The content of the backend restricted to the record of one identity.
Only(m, userID) == [k \in DOMAIN m \cap {userID} |-> m[k]]

\* What a step returns apart from the content of the backend.
Outcome(r) == [r EXCEPT !.backend = NewMemoryBackend]

\* r is the result of a step for userID on m and r1 the result of the same
\* call on a backend holding only the record of userID: the records of the
\* other identities are as they were and both calls have the same outcome.
Independent(m, userID, r, r1) ==
    /\ DOMAIN r.backend \ {userID} = DOMAIN m \ {userID}
    /\ \A other \in DOMAIN m \ {userID} : r.backend[other] = m[other]
    /\ Outcome(r) = Outcome(r1)
    /\ Only(r.backend, userID) = r1.backend

\* C23: identities are independent. In every reachable content of the
\* backend, every step called for an identity I with any arguments leaves
\* the records of the other identities unchanged, and returns what it
\* returns on a backend that holds only the record of I.
C23_IdentitiesIndependent ==
    \A userID \in Identities :
        /\ cfg.role = "Client" =>
            LET m == clientBackend
                m1 == Only(clientBackend, userID)
            IN  /\ \A password \in Passwords :
                       Independent(m, userID,
                           ClientStep1(cfg, m, now, "none", userID, password),
                           ClientStep1(cfg, m1, now, "none", userID, password))
                /\ \A gen \in generatePrivateValue(cfg.grp.Prime), salt \in Salts,
                      publicServerValue \in PublicValues(cfg) :
                       Independent(m, userID,
                           ClientStep2(cfg, m, now, "none", gen, userID, salt,
                                       publicServerValue),
                           ClientStep2(cfg, m1, now, "none", gen, userID, salt,
                                       publicServerValue))
                /\ \A serverEvidence \in Evidences :
                       Independent(m, userID,
                           ClientStep3(cfg, m, now, "none", userID, serverEvidence),
                           ClientStep3(cfg, m1, now, "none", userID, serverEvidence))
        /\ cfg.role = "Server" =>
            LET m == serverBackend
                m1 == Only(serverBackend, userID)
            IN  \A salt \in Salts, verifier \in Verifiers(cfg) :
                  /\ \A gen \in generatePrivateValue(cfg.grp.Prime) :
                       Independent(m, userID,
                           ServerStep1(cfg, m, now, "none", gen, userID, salt, verifier),
                           ServerStep1(cfg, m1, now, "none", gen, userID, salt, verifier))
                  /\ \A publicClientValue \in PublicValues(cfg),
                        clientEvidence \in Evidences :
                       Independent(m, userID,
                           ServerStep2(cfg, m, now, "none", userID, salt, verifier,
                                       publicClientValue, clientEvidence),
                           ServerStep2(cfg, m1, now, "none", userID, salt, verifier,
                                       publicClientValue, clientEvidence))

\* A step for alice has just succeeded and deleted her session while the
\* session of bob, in state step2, is stored.
C23_Witness ==
    /\ last.op = "Client.Step3"
    /\ last.err = NoErr
    /\ last.userID = "alice"
    /\ "alice" \notin DOMAIN clientBackend
    /\ StateOf(clientBackend, "bob") = StateV(step2)

-----------------------------------------------------------------------------
(* SpecVerifier: a Verifier built with a group and an X function, whose    *)
(* GenerateVerifier is called with any arguments, any number of times.     *)
(* kern.calls keeps every call made so far with the value it returned.     *)

VerifierConfigs ==
    { NewObject("Verifier", grp, fx, 0) : grp \in Groups, fx \in ComputeXs }

InitVerifier ==
    /\ cfg \in VerifierConfigs
    /\ clientBackend = NewMemoryBackend
    /\ serverBackend = NewMemoryBackend
    /\ now = 0
    /\ last = NoEvent("New")
    /\ hs = HsIdle
    /\ kern = [pc |-> "verifier", calls |-> {}, again |-> FALSE]

GenerateVerifierCall(salt, username, password) ==
    LET verifier == GenerateVerifier(cfg, salt, username, password)
        args == [salt |-> salt, username |-> username, password |-> password]
    IN  /\ kern' = [ pc |-> "verifier",
                     calls |-> kern.calls \cup {[args |-> args, verifier |-> verifier]},
                     again |-> \E call \in kern.calls : call.args = args ]
        /\ last' = [NoEvent("Verifier.GenerateVerifier") EXCEPT
                        !.userID = username]
        /\ UNCHANGED <<cfg, clientBackend, serverBackend, now, hs>>

NextVerifier ==
    \E salt \in Salts, username \in UserIDs, password \in Passwords :
        GenerateVerifierCall(salt, username, password)

SpecVerifier == InitVerifier /\ [][NextVerifier]_vars

\* g^x mod N with x of the configured variant, from the formulas.
ExpectedVerifier(args) ==
    LET x == IF cfg.computeX = "computeXWithUsername"
             THEN Hash(args.salt.bytes
                       \o HashSum(StrBytes(args.username) \o StrBytes(":")
                                  \o StrBytes(args.password)))
             ELSE Hash(args.salt.bytes \o HashSum(StrBytes(args.password)))
    IN  ModExp(cfg.grp.Generator, x, cfg.grp.Prime)

\* C24: GenerateVerifier is a pure function. Every call returns g^x mod N
\* with x computed by the configured X variant, two calls with the same
\* salt, I and P return the same value, and a call leaves the session
\* state (the content of the backends) as it was.
C24_GenerateVerifierPure ==
    /\ [](cfg.role = "Verifier" =>
            /\ \A call \in kern.calls : call.verifier = ExpectedVerifier(call.args)
            /\ \A c1, c2 \in kern.calls :
                   c1.args = c2.args => c1.verifier = c2.verifier)
    /\ [][ last'.op = "Verifier.GenerateVerifier" =>
               UNCHANGED <<cfg, clientBackend, serverBackend, now>> ]_vars

\* GenerateVerifier has been called a second time with the arguments of an
\* earlier call, on a Verifier that computes x with the username.
C24_Witness ==
    /\ cfg.role = "Verifier"
    /\ cfg.computeX = "computeXWithUsername"
    /\ last.op = "Verifier.GenerateVerifier"
    /\ kern.again
    /\ Cardinality(kern.calls) > 1

-----------------------------------------------------------------------------
(* SpecConstruct: NewClient, NewServer and NewVerifier called with any     *)
(* options. An option is a record of its kind and of the value it was made *)
(* with. kern holds the call and what it returned; a behaviour is one     *)
(* call, since every call starts from the defaults. A nil big.Int is Nil.  *)

\* A nil function value, and the nil object a failed constructor returns.
NilFunc == "nil"
NilObject == [role |-> "nil"]

\* The stand-in of the model for the default group (the 2048-bit group).
DefaultGroup == [Prime |-> 11, Generator |-> 2]

\* The object a constructor starts from. A Verifier has no timeout and no
\* option to set one: its field stays 0.
DefaultObject(role) ==
    [ role |-> role, fHash |-> "sha256", grp |-> DefaultGroup,
      computeX |-> "computeXWithoutUsername", timeout |-> 0 ]

\* An option whose check rejects a timeout of 0 as well.
ApplyOptionPositiveTimeout(obj, opt) ==
    IF opt.kind = "Hash"
    THEN IF opt.fn = NilFunc
         THEN [err |-> "the hash function must not be nil", obj |-> obj]
         ELSE [err |-> NoErr, obj |-> [obj EXCEPT !.fHash = opt.fn]]
    ELSE IF opt.kind = "Group"
    THEN IF opt.grp.Prime = Nil \/ opt.grp.Generator = Nil
         THEN [err |-> "the prime and generator must not be nil", obj |-> obj]
         ELSE [err |-> NoErr, obj |-> [obj EXCEPT !.grp = opt.grp]]
    ELSE IF opt.kind = "FuncX"
    THEN IF opt.fn = NilFunc
         THEN [err |-> "the compute x function should not be nil", obj |-> obj]
         ELSE [err |-> NoErr, obj |-> [obj EXCEPT !.computeX = opt.fn]]
    ELSE IF opt.t <= 0
         THEN [err |-> "the timeout must be zero (no timeout) or greater", obj |-> obj]
         ELSE [err |-> NoErr, obj |-> [obj EXCEPT !.timeout = opt.t]]

\* opt(obj): ClientHash, ClientGroup, ClientFuncX, ClientTimeout and the
\* same options of the Server and of the Verifier.
ApplyOption(obj, opt) ==
    IF opt.kind = "Hash"
    THEN IF opt.fn = NilFunc
         THEN [err |-> "the hash function must not be nil", obj |-> obj]
         ELSE [err |-> NoErr, obj |-> [obj EXCEPT !.fHash = opt.fn]]
    ELSE IF opt.kind = "Group"
    THEN IF opt.grp.Prime = Nil \/ opt.grp.Generator = Nil
         THEN [err |-> "the prime and generator must not be nil", obj |-> obj]
         ELSE [err |-> NoErr, obj |-> [obj EXCEPT !.grp = opt.grp]]
    ELSE IF opt.kind = "FuncX"
    THEN IF opt.fn = NilFunc
         THEN [err |-> "the compute x function should not be nil", obj |-> obj]
         ELSE [err |-> NoErr, obj |-> [obj EXCEPT !.computeX = opt.fn]]
    ELSE IF opt.t < 0
         THEN [err |-> "the timeout must be zero (no timeout) or greater", obj |-> obj]
         ELSE [err |-> NoErr, obj |-> [obj EXCEPT !.timeout = opt.t]]

\* for _, opt := range options: the first error returns (nil, err).
RECURSIVE ApplyOptions(_, _)
ApplyOptions(obj, options) ==
    IF options = <<>> THEN [err |-> NoErr, obj |-> obj]
    ELSE LET r == ApplyOption(obj, Head(options))
         IN  IF r.err # NoErr THEN [err |-> r.err, obj |-> NilObject]
             ELSE ApplyOptions(r.obj, Tail(options))

\* NewClient, NewServer, NewVerifier
NewWithOptions(role, options) == ApplyOptions(DefaultObject(role), options)

\* An option: its kind and the value it was made with, in the field of the
\* type of that kind (the other fields are not read).
Option(kind, fn, grp, t) == [kind |-> kind, fn |-> fn, grp |-> grp, t |-> t]

\* The options a caller can build: valid and invalid values of each kind.
\* The group of an option is a non-nil *Group.
HashOptions == { Option("Hash", h, DefaultGroup, 0) : h \in {NilFunc, "sha1"} }
GroupOptions ==
    { Option("Group", NilFunc, [Prime |-> p, Generator |-> g], 0) :
        p \in {Nil, 5, 7}, g \in {Nil, 2} }
FuncXOptions ==
    { Option("FuncX", fx, DefaultGroup, 0) : fx \in {NilFunc} \cup ComputeXs }
TimeoutOptions ==
    { Option("Timeout", NilFunc, DefaultGroup, t) : t \in (0 - 1)..MaxTime }

OptionsOf(role) ==
    HashOptions \cup GroupOptions \cup FuncXOptions
        \cup (IF role = "Verifier" THEN {} ELSE TimeoutOptions)

\* The longest list of options of a call.
MaxOptions == 2

OptionLists(role) ==
    UNION { [1..n -> OptionsOf(role)] : n \in 0..MaxOptions }

InitConstruct ==
    /\ cfg = NewObject("New", DefaultGroup, "computeXWithoutUsername", 0)
    /\ clientBackend = NewMemoryBackend
    /\ serverBackend = NewMemoryBackend
    /\ now = 0
    /\ last = NoEvent("New")
    /\ hs = HsIdle
    /\ kern = [pc |-> "idle"]

Construct(role, options) ==
    LET r == NewWithOptions(role, options)
    IN  /\ kern.pc = "idle"
        /\ kern' = [pc |-> "new", role |-> role, options |-> options,
                    err |-> r.err, obj |-> r.obj]
        /\ UNCHANGED <<cfg, clientBackend, serverBackend, now, last, hs>>

NextConstruct ==
    \E role \in {"Client", "Server", "Verifier"} :
        \E options \in OptionLists(role) : Construct(role, options)

SpecConstruct == InitConstruct /\ [][NextConstruct]_vars

\* The invalid options the contract names.
InvalidOption(opt) ==
    \/ opt.kind = "Hash" /\ opt.fn = NilFunc
    \/ opt.kind = "Group" /\ (opt.grp.Prime = Nil \/ opt.grp.Generator = Nil)
    \/ opt.kind = "FuncX" /\ opt.fn = NilFunc
    \/ opt.kind = "Timeout" /\ opt.t < 0

\* An object whose every field can be used by the steps.
Usable(obj) ==
    /\ obj # NilObject
    /\ obj.fHash # NilFunc
    /\ obj.grp.Prime # Nil /\ obj.grp.Generator # Nil
    /\ obj.computeX \in ComputeXs
    /\ obj.timeout >= 0

\* The last option of a kind in a list, or the default.
RECURSIVE LastOf(_, _, _)
LastOf(options, kind, default) ==
    IF options = <<>> THEN default
    ELSE LastOf(Tail(options), kind,
                IF Head(options).kind = kind THEN Head(options) ELSE default)

\* C25: constructor validation. A constructor called with an invalid option
\* (nil hash, a group with a nil prime or generator, nil X function,
\* negative timeout) returns (nil, error); otherwise it returns a usable
\* object and no error, and a timeout of 0 or more is stored as given.
C25_ConstructorValidation ==
    kern.pc = "new" =>
        IF \E i \in DOMAIN kern.options : InvalidOption(kern.options[i])
        THEN kern.obj = NilObject /\ kern.err # NoErr
        ELSE /\ kern.err = NoErr
             /\ Usable(kern.obj)
             /\ kern.obj.role = kern.role
             /\ kern.obj.timeout
                    = LastOf(kern.options, "Timeout", Option("Timeout", NilFunc, DefaultGroup, 0)).t
             /\ kern.obj.grp
                    = LastOf(kern.options, "Group", Option("Group", NilFunc, DefaultGroup, 0)).grp

\* NewServer was called with a timeout of 0 after another valid option and
\* returned a Server; and the case of a rejected option list is C25_Rejects.
C25_Witness ==
    /\ kern.pc = "new"
    /\ kern.role = "Server"
    /\ Len(kern.options) = MaxOptions
    /\ kern.options[MaxOptions] = Option("Timeout", NilFunc, DefaultGroup, 0)
    /\ kern.err = NoErr
    /\ kern.obj.timeout = 0

-----------------------------------------------------------------------------
(* SpecBackend: a MemoryBackend called directly with Put, Get and Delete   *)
(* in any order. serverBackend is its map; kern holds the mutations made   *)
(* so far, in order, and the last call with what it returned.              *)

\* The longest sequence of Put and Delete calls of a behaviour.
MaxHistory == 3

\* The mappings put: two records of different content.
BackendValues ==
    { [ state |-> StateV(step1), lastActivity |-> TimeV(0), password |-> StrV("pw") ],
      [ state |-> StateV(step2), lastActivity |-> TimeV(1) ] }

NoCall == [op |-> "none", key |-> "", err |-> FALSE, val |-> NewMemoryBackend]

InitBackend ==
    /\ cfg = NewObject("Backend", DefaultGroup, "computeXWithoutUsername", 0)
    /\ clientBackend = NewMemoryBackend
    /\ serverBackend = NewMemoryBackend
    /\ now = 0
    /\ last = NoEvent("New")
    /\ hs = HsIdle
    /\ kern = [pc |-> "backend", history |-> <<>>, call |-> NoCall]

MemoryPutCall(key, val) ==
    /\ Len(kern.history) < MaxHistory
    /\ serverBackend' = Put(serverBackend, key, val)
    /\ kern' = [ pc |-> "backend",
                 history |-> Append(kern.history, [op |-> "Put", key |-> key, val |-> val]),
                 call |-> [op |-> "Put", key |-> key, err |-> FALSE,
                           val |-> NewMemoryBackend] ]
    /\ UNCHANGED <<cfg, clientBackend, now, last, hs>>

MemoryGetCall(key) ==
    LET got == Get(serverBackend, key)
    IN  /\ kern' = [kern EXCEPT !.call = [op |-> "Get", key |-> key,
                                          err |-> got.err, val |-> got.val]]
        /\ UNCHANGED <<cfg, clientBackend, serverBackend, now, last, hs>>

MemoryDeleteCall(key) ==
    /\ Len(kern.history) < MaxHistory
    /\ serverBackend' = Delete(serverBackend, key)
    /\ kern' = [ pc |-> "backend",
                 history |-> Append(kern.history,
                                [op |-> "Delete", key |-> key, val |-> NewMemoryBackend]),
                 call |-> [op |-> "Delete", key |-> key, err |-> FALSE,
                           val |-> NewMemoryBackend] ]
    /\ UNCHANGED <<cfg, clientBackend, now, last, hs>>

NextBackend ==
    \E key \in Identities :
        \/ \E val \in BackendValues : MemoryPutCall(key, val)
        \/ MemoryGetCall(key)
        \/ MemoryDeleteCall(key)

SpecBackend == InitBackend /\ [][NextBackend]_vars

\* The most recent mutation of a key in a history, or NoCall when the key
\* was never put nor deleted.
RECURSIVE MostRecent(_, _)
MostRecent(history, key) ==
    IF history = <<>> THEN NoCall
    ELSE IF history[Len(history)].key = key THEN history[Len(history)]
    ELSE MostRecent(SubSeq(history, 1, Len(history) - 1), key)

\* C26: round trip of the in-memory backend. After any sequence of Put and
\* Delete calls, Get(key) returns without error the value of the most
\* recent Put(key, v) when no Delete(key) followed it; a Put on a key that
\* is present replaces its value.
C26_MemoryRoundTrip ==
    (cfg.role = "Backend" /\ kern.call.op = "Get"
        /\ MostRecent(kern.history, kern.call.key).op = "Put") =>
        /\ kern.call.err = FALSE
        /\ kern.call.val = MostRecent(kern.history, kern.call.key).val

\* Get has returned the value of the second of two Puts of different
\* values on the same key.
C26_Witness ==
    /\ cfg.role = "Backend"
    /\ kern.call.op = "Get"
    /\ kern.call.err = FALSE
    /\ Len(kern.history) >= 2
    /\ kern.history[1].op = "Put" /\ kern.history[2].op = "Put"
    /\ kern.history[1].key = kern.call.key /\ kern.history[2].key = kern.call.key
    /\ kern.history[1].val # kern.history[2].val
    /\ kern.call.val = kern.history[2].val

\* C27: absence in the in-memory backend. Get on a key that was never put,
\* or whose most recent mutation was Delete, returns a nil mapping and an
\* error; Delete returns nil, also for a key that is absent.
C27_MemoryAbsence ==
    cfg.role = "Backend" =>
        /\ (kern.call.op = "Get"
              /\ MostRecent(kern.history, kern.call.key).op \in {"none", "Delete"}) =>
               (kern.call.err = TRUE /\ kern.call.val = NewMemoryBackend)
        /\ kern.call.op = "Delete" =>
               (kern.call.err = FALSE /\ kern.call.key \notin DOMAIN serverBackend)

\* Get has failed on a key that was put and then deleted twice: the second
\* Delete found the key absent.
C27_Witness ==
    /\ cfg.role = "Backend"
    /\ kern.call.op = "Get"
    /\ kern.call.err = TRUE
    /\ Len(kern.history) = 3
    /\ kern.history[1].op = "Put" /\ kern.history[1].key = kern.call.key
    /\ kern.history[2].op = "Delete" /\ kern.history[2].key = kern.call.key
    /\ kern.history[3].op = "Delete" /\ kern.history[3].key = kern.call.key

-----------------------------------------------------------------------------
(* SpecRace: two invocations of Server.Step2, or of Client.Step2, for the  *)
(* same identity, running concurrently on one backend. Between its Get and *)
(* its Delete or Put an invocation works on the record it got, so the      *)
(* invocations interleave at the calls of the backend; each call of the    *)
(* backend is atomic. hs holds the two invocations: what each got, what it *)
(* returned, the order in which they finished, and the Client.Step3 that   *)
(* follows.                                                                *)

Procs == {1, 2}

\* An invocation: its position, the evidence it was called with (Server),
\* the content of the backend its Get saw, what it returned and the
\* record it put (Client).
IdleProc ==
    [ pc |-> "idle", clientEvidence |-> Nil, got |-> NewMemoryBackend,
      r |-> Fail(NoErr, NewMemoryBackend), put |-> NewMemoryBackend ]

NoStep3 == [called |-> FALSE, serverEvidence |-> Nil, err |-> NoErr]

RaceState(procs, order, B, A, M1, verifier, step3) ==
    [ pc |-> "race", procs |-> procs, order |-> order,
      publicServerValue |-> B, publicClientValue |-> A, clientEvidence |-> M1,
      verifier |-> verifier, step3 |-> step3 ]

\* A Server with the session of alice stored by Server.Step1, and the A and
\* M1 her client computes for it; or a Client with the session of alice
\* stored by Client.Step1, and a valid B received from the server.
InitRace ==
    /\ cfg \in ObjectConfigs
    /\ now = 0
    /\ last = NoEvent("New")
    /\ kern = KernIdle
    /\ \/ /\ cfg.role = "Server"
          /\ clientBackend = NewMemoryBackend
          /\ \E b \in generatePrivateValue(cfg.grp.Prime),
                a \in generatePrivateValue(cfg.grp.Prime) :
               LET verifier == GenerateVerifier(cfg, Salt1, "alice", "pw")
                   s1 == ServerStep1(cfg, NewMemoryBackend, 0, "none", b, "alice",
                                     Salt1, verifier)
                   km == ClientKeyMaterial(cfg,
                             computeX(cfg.computeX, Salt1.bytes, "alice", "pw"),
                             a.val, s1.publicServerValue)
               IN  /\ isValidPublicValue(cfg.grp.Prime, s1.publicServerValue)
                   /\ serverBackend = s1.backend
                   /\ hs = RaceState([p \in Procs |-> IdleProc], <<>>,
                                     s1.publicServerValue, km.publicClientValue,
                                     km.clientEvidence, verifier, NoStep3)
       \/ /\ cfg.role = "Client"
          /\ serverBackend = NewMemoryBackend
          /\ clientBackend
                 = ClientStep1(cfg, NewMemoryBackend, 0, "none", "alice", "pw").backend
          /\ \E B \in 1..(cfg.grp.Prime - 1) :
               hs = RaceState([p \in Procs |-> IdleProc], <<>>, B, Nil, Nil, Nil,
                              NoStep3)

\* Server.Step2 from the return of its Get on: the invocation works on the
\* record it got (in got, the content of the backend at its Get) and its
\* Delete acts on the backend as it is now.
ServerStep2ResumeAtomic(c, got, m, t, userID, salt, verifier, publicClientValue, clientEvidence) ==
    ServerStep2(c, m, t, "none", userID, salt, verifier, publicClientValue,
                clientEvidence)

ServerStep2Resume(c, got, m, t, userID, salt, verifier, publicClientValue, clientEvidence) ==
    LET r == ServerStep2(c, got, t, "none", userID, salt, verifier,
                         publicClientValue, clientEvidence)
    IN  [r EXCEPT !.backend = IF r.err = NoErr THEN Delete(m, userID) ELSE m]

\* Client.Step2 from the return of its Get on: the invocation works on the
\* record it got and its Put acts on the backend as it is now.
ClientStep2ResumeAtomic(c, got, m, t, gen, userID, salt, publicServerValue) ==
    ClientStep2(c, m, t, "none", gen, userID, salt, publicServerValue)

ClientStep2Resume(c, got, m, t, gen, userID, salt, publicServerValue) ==
    LET r == ClientStep2(c, got, t, "none", gen, userID, salt, publicServerValue)
    IN  [r EXCEPT !.backend =
            IF r.err = NoErr THEN Put(m, userID, r.backend[userID]) ELSE m]

\* The Get of an invocation of Server.Step2, called with the A of the
\* client and with her M1 or another evidence.
RaceServerGet(p, clientEvidence) ==
    /\ cfg.role = "Server"
    /\ hs.procs[p].pc = "idle"
    /\ hs' = [hs EXCEPT !.procs[p] =
                 [IdleProc EXCEPT !.pc = "got",
                                  !.clientEvidence = clientEvidence,
                                  !.got = Only(serverBackend, "alice")]]
    /\ UNCHANGED <<cfg, clientBackend, serverBackend, now, last, kern>>

\* The rest of the invocation, to its return.
RaceServerFinish(p) ==
    /\ cfg.role = "Server"
    /\ hs.procs[p].pc = "got"
    /\ LET r == ServerStep2Resume(cfg, hs.procs[p].got, serverBackend, now, "alice",
                                  Salt1, hs.verifier, hs.publicClientValue,
                                  hs.procs[p].clientEvidence)
       IN  /\ serverBackend' = r.backend
           /\ hs' = [hs EXCEPT !.procs[p].pc = "done",
                               !.procs[p].r = Outcome(r),
                               !.order = Append(hs.order, p)]
    /\ UNCHANGED <<cfg, clientBackend, now, last, kern>>

\* The Get of an invocation of Client.Step2.
RaceClientGet(p) ==
    /\ cfg.role = "Client"
    /\ hs.procs[p].pc = "idle"
    /\ hs' = [hs EXCEPT !.procs[p] =
                 [IdleProc EXCEPT !.pc = "got",
                                  !.got = Only(clientBackend, "alice")]]
    /\ UNCHANGED <<cfg, clientBackend, serverBackend, now, last, kern>>

\* The rest of the invocation: it draws a, computes and puts its record.
RaceClientFinish(p, gen) ==
    /\ cfg.role = "Client"
    /\ hs.procs[p].pc = "got"
    /\ LET r == ClientStep2Resume(cfg, hs.procs[p].got, clientBackend, now, gen,
                                  "alice", Salt1, hs.publicServerValue)
       IN  /\ clientBackend' = r.backend
           /\ hs' = [hs EXCEPT !.procs[p].pc = "done",
                               !.procs[p].r = Outcome(r),
                               !.procs[p].put =
                                   IF r.err = NoErr THEN Only(r.backend, "alice")
                                   ELSE NewMemoryBackend,
                               !.order = Append(hs.order, p)]
    /\ UNCHANGED <<cfg, serverBackend, now, last, kern>>

\* Client.Step3 called once both invocations have returned.
RaceClientStep3(serverEvidence) ==
    /\ cfg.role = "Client"
    /\ \A p \in Procs : hs.procs[p].pc = "done"
    /\ ~hs.step3.called
    /\ LET r == ClientStep3(cfg, clientBackend, now, "none", "alice", serverEvidence)
       IN  /\ clientBackend' = r.backend
           /\ hs' = [hs EXCEPT !.step3 = [called |-> TRUE,
                                          serverEvidence |-> serverEvidence,
                                          err |-> r.err]]
    /\ UNCHANGED <<cfg, serverBackend, now, last, kern>>

NextRace ==
    \/ \E p \in Procs :
        \/ \E clientEvidence \in
                {hs.clientEvidence, (hs.clientEvidence + 1) % HashRange} :
               RaceServerGet(p, clientEvidence)
        \/ RaceServerFinish(p)
        \/ RaceClientGet(p)
        \/ \E gen \in generatePrivateValue(cfg.grp.Prime) : RaceClientFinish(p, gen)
    \/ \E serverEvidence \in Evidences \ {Nil} : RaceClientStep3(serverEvidence)

SpecRace == InitRace /\ [][NextRace]_vars

\* Both invocations have returned, and each got the session in state step1:
\* both did their Get before either did its Delete or Put.
BothGotBeforeEitherWrote ==
    \A p \in Procs :
        /\ hs.procs[p].pc = "done"
        /\ StateOf(hs.procs[p].got, "alice") = StateV(step1)

\* C28: Server.Step2 is not atomic. When two invocations of Server.Step2
\* for the same identity with the same valid (A, M1) both do their Get
\* before either does its Delete, both succeed and both return M2: one
\* session of the server authenticates twice.
C28_ServerStep2NotAtomic ==
    (cfg.role = "Server" /\ hs.pc = "race" /\ BothGotBeforeEitherWrote
        /\ \A p \in Procs : hs.procs[p].clientEvidence = hs.clientEvidence) =>
        /\ \A p \in Procs :
               /\ hs.procs[p].r.err = NoErr
               /\ hs.procs[p].r.serverEvidence # Nil
        /\ hs.procs[1].r.serverEvidence = hs.procs[2].r.serverEvidence
        /\ "alice" \notin DOMAIN serverBackend

\* Both invocations got the session, were called with the evidence of the
\* client, and both have returned M2.
C28_Witness ==
    /\ cfg.role = "Server"
    /\ hs.pc = "race"
    /\ BothGotBeforeEitherWrote
    /\ \A p \in Procs :
           /\ hs.procs[p].clientEvidence = hs.clientEvidence
           /\ hs.procs[p].r.err = NoErr
           /\ hs.procs[p].r.serverEvidence # Nil

\* The invocation that finished last, and the one that finished first.
LastWriter == hs.procs[hs.order[Len(hs.order)]]
FirstWriter == hs.procs[hs.order[1]]

\* C29: lost update of Client.Step2. When two invocations of Client.Step2
\* for the same identity both get the step1 record before either puts,
\* both succeed, each returning its own (A, M1); the backend keeps only
\* the record of the last Put, and Client.Step3 accepts exactly the M2
\* that matches the A, M1 and S of that record.
C29_ClientStep2LostUpdate ==
    (cfg.role = "Client" /\ hs.pc = "race" /\ BothGotBeforeEitherWrote) =>
        /\ \A p \in Procs :
               /\ hs.procs[p].r.err = NoErr
               /\ hs.procs[p].r.publicClientValue
                      = hs.procs[p].put["alice"]["publicClientValue"].val
               /\ hs.procs[p].r.clientEvidence
                      = hs.procs[p].put["alice"]["clientEvidence"].val
        /\ ~hs.step3.called => Only(clientBackend, "alice") = LastWriter.put
        /\ hs.step3.called =>
               ((hs.step3.err = NoErr)
                    <=> hs.step3.serverEvidence = ExpectedM2(LastWriter.put["alice"]))

\* The two invocations succeeded with different (A, M1), and Client.Step3
\* accepted the M2 of the last record, which is not the M2 of the first.
C29_Witness ==
    /\ cfg.role = "Client"
    /\ hs.pc = "race"
    /\ BothGotBeforeEitherWrote
    /\ <<FirstWriter.r.publicClientValue, FirstWriter.r.clientEvidence>>
           # <<LastWriter.r.publicClientValue, LastWriter.r.clientEvidence>>
    /\ hs.step3.called
    /\ hs.step3.err = NoErr
    /\ hs.step3.serverEvidence # ExpectedM2(FirstWriter.put["alice"])

-----------------------------------------------------------------------------
(* Properties of the records the library writes.                           *)

\* userID has in m2 a record in state step2 that it did not have in m.
NewStep2Record(m, m2, userID) ==
    /\ userID \in DOMAIN m2
    /\ StateOf(m2, userID) = StateV(step2)
    /\ (userID \notin DOMAIN m \/ m[userID] # m2[userID])

\* C30: the state initial is never stored. Every record the library writes
\* has state step1 or step2; the records of the Server have state step1;
\* a record of the Client has state step2 only after a successful
\* Client.Step2 for its identity.
C30_InitialNeverStored ==
    /\ [](/\ \A userID \in DOMAIN clientBackend :
                StateOf(clientBackend, userID) \in {StateV(step1), StateV(step2)}
          /\ \A userID \in DOMAIN serverBackend :
                StateOf(serverBackend, userID) = StateV(step1))
    /\ [][ \A userID \in UserIDs :
               NewStep2Record(clientBackend, clientBackend', userID) =>
                   /\ last'.op = "Client.Step2"
                   /\ last'.err = NoErr
                   /\ last'.userID = userID ]_vars

\* Client.Step2 has just succeeded and the record of alice has state step2.
C30_Witness ==
    /\ last.op = "Client.Step2"
    /\ last.err = NoErr
    /\ last.userID = "alice"
    /\ StateOf(clientBackend, "alice") = StateV(step2)

\* The kinds of the fields of a record.
KindsOf(rec) == [k \in DOMAIN rec |-> rec[k].kind]

\* The shapes of the records: the fields and their kinds.
ClientStep1Shape ==
    [state |-> "state", lastActivity |-> "time.Time", password |-> "string"]
ClientStep2Shape ==
    [ state |-> "state", lastActivity |-> "time.Time",
      publicClientValue |-> "*big.Int", clientEvidence |-> "*big.Int",
      sessionKey |-> "*big.Int" ]
ServerStep1Shape ==
    [ state |-> "state", lastActivity |-> "time.Time",
      publicServerValue |-> "*big.Int", privateServerValue |-> "*big.Int" ]

\* C31: the shape of the records. Every record the Client stores is exactly
\* {state: step1, lastActivity, password} or exactly {state: step2,
\* lastActivity, publicClientValue, clientEvidence, sessionKey}; every
\* record the Server stores is exactly {state: step1, lastActivity,
\* publicServerValue, privateServerValue}, without salt, verifier or
\* password.
C31_RecordShape ==
    /\ \A userID \in DOMAIN clientBackend :
           LET rec == clientBackend[userID]
           IN  \/ KindsOf(rec) = ClientStep1Shape /\ rec["state"].val = step1
               \/ KindsOf(rec) = ClientStep2Shape /\ rec["state"].val = step2
    /\ \A userID \in DOMAIN serverBackend :
           LET rec == serverBackend[userID]
           IN  /\ KindsOf(rec) = ServerStep1Shape
               /\ rec["state"].val = step1
               /\ DOMAIN rec \cap {"salt", "verifier", "password"} = {}

\* Server.Step1 has just stored a record for a salt and a verifier.
C31_Witness ==
    /\ last.op = "Server.Step1"
    /\ last.err = NoErr
    /\ last.userID \in DOMAIN serverBackend
    /\ KindsOf(serverBackend[last.userID]) = ServerStep1Shape

\* The times from the present on, to one past the last tick of the clock.
LaterTimes == now..(MaxTime + 1)

\* The record under userID in m has timed out at the present time.
TimedOutNow(m, userID) ==
    hasTimedOut(cfg.timeout, m[userID]["lastActivity"].val, now)

-----------------------------------------------------------------------------
(* The calls of the backend a step makes, in order, from the control flow  *)
(* of the step: each return before a call of the backend ends the trace.   *)

ClientStep1Trace(c, m, t, fault, userID, password) ==
    IF userID = "" \/ password = "" THEN <<>> ELSE <<"Put">>

\* A Client.Step2 that calls Get a second time when the first call fails.
ClientStep2TraceRetry(c, m, t, fault, gen, userID, salt, publicServerValue) ==
    IF userID = "" \/ salt.isNil \/ ~isValidPublicValue(c.grp.Prime, publicServerValue)
    THEN <<>>
    ELSE LET got == BackendGet(fault, m, userID)
         IN  IF got.err THEN <<"Get", "Get">>
             ELSE IF ClientStep2Check(c, got.val, t) # NoErr THEN <<"Get">>
             ELSE IF gen.err THEN <<"Get">>
             ELSE <<"Get", "Put">>

ClientStep2Trace(c, m, t, fault, gen, userID, salt, publicServerValue) ==
    IF userID = "" \/ salt.isNil \/ ~isValidPublicValue(c.grp.Prime, publicServerValue)
    THEN <<>>
    ELSE LET got == BackendGet(fault, m, userID)
         IN  IF got.err THEN <<"Get">>
             ELSE IF ClientStep2Check(c, got.val, t) # NoErr THEN <<"Get">>
             ELSE IF gen.err THEN <<"Get">>
             ELSE <<"Get", "Put">>

ClientStep3Trace(c, m, t, fault, userID, serverEvidence) ==
    IF userID = "" \/ serverEvidence = Nil THEN <<>>
    ELSE LET got == BackendGet(fault, m, userID)
         IN  IF got.err THEN <<"Get">>
             ELSE IF ClientStep3Check(c, got.val, t) # NoErr THEN <<"Get">>
             ELSE IF computeServerEvidence(got.val["publicClientValue"].val,
                                           got.val["clientEvidence"].val,
                                           got.val["sessionKey"].val) # serverEvidence
                  THEN <<"Get">>
             ELSE <<"Get", "Delete">>

ServerStep1Trace(c, m, t, fault, gen, userID, salt, verifier) ==
    IF userID = "" \/ salt.isNil \/ verifier = Nil THEN <<>>
    ELSE IF gen.err THEN <<>>
    ELSE <<"Put">>

ServerStep2Trace(c, m, t, fault, userID, salt, verifier, publicClientValue, clientEvidence) ==
    IF userID = "" \/ salt.isNil \/ verifier = Nil \/ clientEvidence = Nil
       \/ ~isValidPublicValue(c.grp.Prime, publicClientValue)
    THEN <<>>
    ELSE LET got == BackendGet(fault, m, userID)
         IN  IF got.err THEN <<"Get">>
             ELSE IF ServerStep2Check(c, got.val, t) # NoErr THEN <<"Get">>
             ELSE IF ServerKeyMaterial(c, verifier, publicClientValue,
                         got.val["publicServerValue"].val,
                         got.val["privateServerValue"].val).computedM1
                     # clientEvidence
                  THEN <<"Get">>
             ELSE <<"Get", "Delete">>

\* A trace in which the call that the backend answers with an error is
\* the last call: nothing is called again after the failure.
NoRetry(trace, fault) ==
    \A i \in DOMAIN trace : trace[i] = fault => i = Len(trace)

\* r and trace are the result and the calls of one invocation on m: a
\* successful step made the calls of full, and a step that changed the
\* backend made a mutation.
BoundedUse(r, trace, m, fault, allowed, full) ==
    /\ trace \in allowed
    /\ NoRetry(trace, fault)
    /\ r.err = NoErr => trace = full
    /\ r.backend # m => trace = full

\* The generators of a step: any private value, or an error.
AnyGenerator(c) ==
    generatePrivateValue(c.grp.Prime) \cup {[err |-> TRUE, val |-> 0]}

-----------------------------------------------------------------------------
(* Properties of the Server.                                               *)

\* The salts that are not nil: the one of the users of the model, another
\* one, and the empty slice.
NonNilSalts ==
    { Salt1, [isNil |-> FALSE, bytes |-> <<2, 1>>], [isNil |-> FALSE, bytes |-> <<>>] }

\* C34: the salt does not influence the Server. For every two salts that
\* are not nil and otherwise equal arguments, private value and content of
\* the backend, Server.Step1 and Server.Step2 return the same result and
\* leave the same content (each salt gives what Salt1 gives); with a nil salt and an identity that is not
\* empty they fail with the validation error of the salt.
C34_SaltNotUsedByServer ==
    cfg.role = "Server" =>
        \A userID \in UserIDs, verifier \in Verifiers(cfg) :
            /\ \A gen \in AnyGenerator(cfg) :
                 /\ \A salt \in NonNilSalts :
                        ServerStep1(cfg, serverBackend, now, "none", gen, userID, salt,
                                    verifier)
                            = ServerStep1(cfg, serverBackend, now, "none", gen, userID,
                                          Salt1, verifier)
                 /\ userID # "" =>
                        ServerStep1(cfg, serverBackend, now, "none", gen, userID,
                                    NilSalt, verifier).err = "the salt must not be nil"
            /\ \A publicClientValue \in PublicValues(cfg), clientEvidence \in Evidences :
                 /\ \A salt \in NonNilSalts :
                        ServerStep2(cfg, serverBackend, now, "none", userID, salt,
                                    verifier, publicClientValue, clientEvidence)
                            = ServerStep2(cfg, serverBackend, now, "none", userID,
                                          Salt1, verifier, publicClientValue,
                                          clientEvidence)
                 /\ userID # "" =>
                        ServerStep2(cfg, serverBackend, now, "none", userID, NilSalt,
                                    verifier, publicClientValue, clientEvidence).err
                            = "the salt must not be nil"

\* A session is open on the Server and Server.Step2 succeeds on it with an
\* evidence, called with the salt of the user and with the empty salt.
C34_Witness ==
    /\ cfg.role = "Server"
    /\ SessionOpen(serverBackend, "alice", step1)
    /\ \E verifier \in Verifiers(cfg), publicClientValue \in PublicValues(cfg),
          clientEvidence \in Evidences :
         \A salt \in {Salt1, [isNil |-> FALSE, bytes |-> <<>>]} :
            ServerStep2(cfg, serverBackend, now, "none", "alice", salt, verifier,
                        publicClientValue, clientEvidence).err = NoErr

\* k*v mod N and (k*v + g^b) mod N from the formulas.
KTimesV(verifier) ==
    LET N == cfg.grp.Prime
        k == Hash(Bytes(N) \o getPadded(cfg.grp.Generator, Len(Bytes(N)))) % N
    IN  (k * verifier) % N

ExpectedB(verifier, privateServerValue) ==
    (KTimesV(verifier)
        + ModExp(cfg.grp.Generator, privateServerValue, cfg.grp.Prime)) % cfg.grp.Prime

\* The result of Client.Step2 called with B by a client of the same group
\* whose Client.Step1 has just succeeded.
HonestClientStep2(gen, publicServerValue) ==
    ClientStep2(cfg,
                ClientStep1(cfg, NewMemoryBackend, now, "none", "alice", "pw").backend,
                now, "none", gen, "alice", Salt1, publicServerValue)

\* C35 as stated: Server.Step1 only emits valid public values. The B
\* returned and stored by Server.Step1 satisfies B mod N # 0 for every
\* verifier and every private value b in [1, N-1], so the validation of B
\* in Client.Step2 never rejects an honest server.
C35_ServerStep1EmitsValidB ==
    cfg.role = "Server" =>
        \A verifier \in Verifiers(cfg) \ {Nil}, gen \in generatePrivateValue(cfg.grp.Prime),
           a \in generatePrivateValue(cfg.grp.Prime) :
            LET r == ServerStep1(cfg, serverBackend, now, "none", gen, "alice", Salt1,
                                 verifier)
            IN  /\ r.err = NoErr
                /\ r.publicServerValue % cfg.grp.Prime # 0
                /\ r.backend["alice"]["publicServerValue"].val % cfg.grp.Prime # 0
                /\ HonestClientStep2(a, r.publicServerValue).err
                       # "bad server public value"

\* C35 amended: Server.Step1 returns and stores B = (k*v + g^b) mod N
\* without a check. B mod N # 0 except for the b in [1, N-1] with
\* g^b = -k*v (mod N); for those Server.Step1 succeeds with B = 0, and the
\* validation of B in Client.Step2 rejects exactly these values.
C35_ServerStep1EmitsUncheckedB ==
    cfg.role = "Server" =>
        \A verifier \in Verifiers(cfg) \ {Nil}, gen \in generatePrivateValue(cfg.grp.Prime),
           a \in generatePrivateValue(cfg.grp.Prime) :
            LET N == cfg.grp.Prime
                r == ServerStep1(cfg, serverBackend, now, "none", gen, "alice", Salt1,
                                 verifier)
                B == ExpectedB(verifier, gen.val)
            IN  /\ r.err = NoErr
                /\ r.publicServerValue = B
                /\ r.backend["alice"]["publicServerValue"].val = B
                /\ (HonestClientStep2(a, r.publicServerValue).err
                        = "bad server public value")
                       <=> (ModExp(cfg.grp.Generator, gen.val, N)
                               = (N - KTimesV(verifier)) % N)

\* Server.Step1 has returned B = 0 for a verifier and a private value in
\* [1, N-1], and stored it.
C35_Witness ==
    /\ last.op = "Server.Step1"
    /\ last.err = NoErr
    /\ last.publicServerValue = 0
    /\ serverBackend[last.userID]["publicServerValue"].val = 0
    /\ serverBackend[last.userID]["privateServerValue"].val \in 1..(cfg.grp.Prime - 1)

-----------------------------------------------------------------------------
(* Properties of the Client.                                               *)

\* C36: a repeated Client.Step2 is harmless. A Client.Step2 for I called
\* after a successful Client.Step2, with no Client.Step1 in between, fails
\* and leaves the step2 record as it was, so that a Client.Step3 with the
\* correct M2 that follows, within the timeout window, succeeds. The first
\* conjunct is the repetition right after the successful call, the second
\* every later repetition on the record the successful call stores.
C36_RepeatedClientStep2Harmless ==
    /\ [][ (/\ last.op = "Client.Step2"
            /\ last.err = NoErr
            /\ last'.op = "Client.Step2"
            /\ last'.userID = last.userID) =>
             /\ last'.err # NoErr
             /\ clientBackend' = clientBackend ]_vars
    /\ [](cfg.role = "Client" =>
            \A userID \in DOMAIN clientBackend :
              StateOf(clientBackend, userID) = StateV(step2) =>
                \A gen \in generatePrivateValue(cfg.grp.Prime), salt \in Salts,
                   publicServerValue \in PublicValues(cfg) :
                  LET r == ClientStep2(cfg, clientBackend, now, "none", gen, userID,
                                       salt, publicServerValue)
                  IN  /\ r.err # NoErr
                      /\ r.backend = clientBackend
                      /\ \A t \in TimesInWindow(clientBackend[userID]) :
                           ClientStep3(cfg, r.backend, t, "none", userID,
                                       ExpectedM2(clientBackend[userID])).err = NoErr)

\* The steps that check the timeout of a stored record.
TimedOps == {"Server.Step2", "Client.Step2", "Client.Step3"}

\* The records that m and m2 both hold have the same lastActivity.
SameLastActivity(m, m2) ==
    \A userID \in DOMAIN m \cap DOMAIN m2 :
        LastActivityOf(m2, userID) = LastActivityOf(m, userID)

\* C37: failed attempts do not extend the session. A Server.Step2,
\* Client.Step2 or Client.Step3 that returns an error leaves the lastActivity
\* of every record as it was; the lastActivity of a server record is the time
\* of the Server.Step1 that wrote it and changes only by another successful
\* Server.Step1; so with timeout T > 0 a Server.Step2 at a time later than
\* that lastActivity plus T, whatever was attempted before, does not succeed.
C37_FailedAttemptsKeepLastActivity ==
    /\ [][ /\ (last'.op \in TimedOps /\ last'.err # NoErr) =>
                /\ DOMAIN clientBackend' = DOMAIN clientBackend
                /\ DOMAIN serverBackend' = DOMAIN serverBackend
                /\ SameLastActivity(clientBackend, clientBackend')
                /\ SameLastActivity(serverBackend, serverBackend')
           /\ (last'.op = "Server.Step1" /\ last'.err = NoErr) =>
                LastActivityOf(serverBackend', last'.userID) = now
           /\ ~(last'.op = "Server.Step1" /\ last'.err = NoErr) =>
                SameLastActivity(serverBackend, serverBackend')
         ]_vars
    /\ [](cfg.role = "Server" /\ cfg.timeout > 0 =>
            \A userID \in DOMAIN serverBackend, t \in LaterTimes, salt \in Salts,
               verifier \in Verifiers(cfg), publicClientValue \in PublicValues(cfg),
               clientEvidence \in Evidences :
              ServerStep2(cfg, serverBackend, t, "none", userID, salt, verifier,
                          publicClientValue, clientEvidence).err = NoErr
                => t <= LastActivityOf(serverBackend, userID) + cfg.timeout)

\* A Server.Step2 has just failed on the evidence at the last time of the
\* window of a record written by a Server.Step1 at an earlier time.
C37_Witness ==
    /\ last.op = "Server.Step2"
    /\ last.err = "bad client credentials"
    /\ cfg.timeout > 0
    /\ last.userID \in DOMAIN serverBackend
    /\ now = LastActivityOf(serverBackend, last.userID) + cfg.timeout

\* The times from now on at which a record with lastActivity now is within
\* the timeout T of the object.
TimesWithinTimeout == { t \in LaterTimes : t <= now + cfg.timeout }

\* C38: the client timeout is per step, not per session. A successful
\* Client.Step2 leaves under I a record whose lastActivity is the time of
\* that call, so with timeout T > 0 a Client.Step3 with the correct M2 is
\* accepted at every time up to T after the Client.Step2, however long ago
\* the Client.Step1 was.
C38_ClientTimeoutPerStep ==
    [][ (last'.op = "Client.Step2" /\ last'.err = NoErr) =>
          /\ last'.userID \in DOMAIN clientBackend'
          /\ StateOf(clientBackend', last'.userID) = StateV(step2)
          /\ LastActivityOf(clientBackend', last'.userID) = now
          /\ cfg.timeout > 0 =>
               \A t \in TimesWithinTimeout :
                 ClientStep3(cfg, clientBackend', t, "none", last'.userID,
                             ExpectedM2(clientBackend'[last'.userID])).err = NoErr
      ]_vars

-----------------------------------------------------------------------------
(* SpecShared: a Client and a Server constructed with the same backend and *)
(* the same configuration, called for two identities. clientBackend and    *)
(* serverBackend are the two references to the one backend.                *)

SharedConfigs ==
    { NewObject("Shared", grp, fx, 0) : grp \in ObjectGroups, fx \in ComputeXs }

InitShared ==
    /\ cfg \in SharedConfigs
    /\ clientBackend = NewMemoryBackend
    /\ serverBackend = clientBackend
    /\ now = 0
    /\ last = NoEvent("New")
    /\ hs = HsIdle
    /\ kern = KernIdle

\* A step of either object leaves its result in the one backend.
SharedCall(op, userID, r) ==
    /\ clientBackend' = r.backend
    /\ serverBackend' = r.backend
    /\ last' = Event(op, userID, r)
    /\ UNCHANGED <<cfg, now, hs, kern>>

SharedClientStep1(userID) ==
    SharedCall("Client.Step1", userID,
               ClientStep1(cfg, clientBackend, now, "none", userID, "pw"))

SharedClientStep2(a, userID, publicServerValue) ==
    SharedCall("Client.Step2", userID,
               ClientStep2(cfg, clientBackend, now, "none", [err |-> FALSE, val |-> a],
                           userID, Salt1, publicServerValue))

SharedClientStep3(userID, serverEvidence) ==
    SharedCall("Client.Step3", userID,
               ClientStep3(cfg, clientBackend, now, "none", userID, serverEvidence))

SharedServerStep1(b, userID, verifier) ==
    SharedCall("Server.Step1", userID,
               ServerStep1(cfg, serverBackend, now, "none", [err |-> FALSE, val |-> b],
                           userID, Salt1, verifier))

SharedServerStep2(userID, verifier, publicClientValue, clientEvidence) ==
    SharedCall("Server.Step2", userID,
               ServerStep2(cfg, serverBackend, now, "none", userID, Salt1, verifier,
                           publicClientValue, clientEvidence))

NextShared ==
    \E userID \in Identities :
        \/ SharedClientStep1(userID)
        \/ \E a \in IdentityValues, publicServerValue \in PublicValues(cfg) \ {Nil} :
             SharedClientStep2(a, userID, publicServerValue)
        \/ \E serverEvidence \in Evidences \ {Nil} :
             SharedClientStep3(userID, serverEvidence)
        \/ \E b \in IdentityValues, verifier \in Verifiers(cfg) \ {Nil} :
             SharedServerStep1(b, userID, verifier)
        \/ \E verifier \in Verifiers(cfg) \ {Nil},
              publicClientValue \in PublicValues(cfg) \ {Nil},
              clientEvidence \in Evidences \ {Nil} :
             SharedServerStep2(userID, verifier, publicClientValue, clientEvidence)

SpecShared == InitShared /\ [][NextShared]_vars

\* Some Client.Step2 or Client.Step3 for userID succeeds on the backend m.
ClientCanProceed(m, userID) ==
    \/ \E a \in IdentityValues, publicServerValue \in PublicValues(cfg) :
         ClientStep2(cfg, m, now, "none", [err |-> FALSE, val |-> a], userID, Salt1,
                     publicServerValue).err = NoErr
    \/ \E serverEvidence \in Evidences :
         ClientStep3(cfg, m, now, "none", userID, serverEvidence).err = NoErr

\* Some Server.Step2 for userID succeeds on the backend m.
ServerCanProceed(m, userID) ==
    \E verifier \in Verifiers(cfg), publicClientValue \in PublicValues(cfg),
       clientEvidence \in Evidences :
      ServerStep2(cfg, m, now, "none", userID, Salt1, verifier, publicClientValue,
                  clientEvidence).err = NoErr

MissingPassword == "could not read 'password' from backend"

-----------------------------------------------------------------------------
(* SpecRestart: a Server whose Step1 is called again for an identity that  *)
(* has a session. hs.first keeps, for each identity, the record that the   *)
(* latest Server.Step1 replaced: the one of the earlier call.              *)

RestartConfigs == { c \in ObjectConfigs : c.role = "Server" /\ c.timeout = 0 }

InitRestart ==
    /\ cfg \in RestartConfigs
    /\ clientBackend = NewMemoryBackend
    /\ serverBackend = NewMemoryBackend
    /\ now = 0
    /\ last = NoEvent("New")
    /\ hs = [pc |-> "restart", first |-> NewMemoryBackend]
    /\ kern = KernIdle

RestartServerStep1(gen, userID, salt, verifier) ==
    LET r == ServerStep1(cfg, serverBackend, now, "none", gen, userID, salt, verifier)
    IN  /\ serverBackend' = r.backend
        /\ last' = Event("Server.Step1", userID, r)
        /\ hs' = IF r.err = NoErr /\ userID \in DOMAIN serverBackend
                 THEN [hs EXCEPT !.first = Put(@, userID, serverBackend[userID])]
                 ELSE hs
        /\ UNCHANGED <<cfg, clientBackend, now, kern>>

RestartServerStep2(userID, salt, verifier, publicClientValue, clientEvidence) ==
    LET r == ServerStep2(cfg, serverBackend, now, "none", userID, salt, verifier,
                         publicClientValue, clientEvidence)
    IN  /\ serverBackend' = r.backend
        /\ last' = Event("Server.Step2", userID, r)
        /\ hs' = IF r.err = NoErr THEN [hs EXCEPT !.first = Delete(@, userID)]
                 ELSE hs
        /\ UNCHANGED <<cfg, clientBackend, now, kern>>

NextRestart ==
    \E userID \in UserIDs, salt \in Salts, verifier \in Verifiers(cfg) :
        \/ \E gen \in generatePrivateValue(cfg.grp.Prime) :
             RestartServerStep1(gen, userID, salt, verifier)
        \/ \E publicClientValue \in PublicValues(cfg), clientEvidence \in Evidences :
             RestartServerStep2(userID, salt, verifier, publicClientValue,
                                clientEvidence)

SpecRestart == InitRestart /\ [][NextRestart]_vars

\* C40: Server.Step2 checks against the most recent Server.Step1. When
\* Server.Step1 is called twice for I, the record under I holds the B and b
\* of the second call; a Server.Step2 that follows succeeds exactly for the
\* valid arguments whose M1 is the one computed from that B and b, and an
\* evidence computed against the B and b of the first call is accepted only
\* if it equals the expected M1 of the second.
C40_ServerStep2UsesLatestStep1 ==
    /\ [][ (last'.op = "Server.Step1" /\ last'.err = NoErr) =>
             /\ last'.userID \in DOMAIN serverBackend'
             /\ serverBackend'[last'.userID]["publicServerValue"].val =
                    last'.publicServerValue ]_vars
    /\ [](hs.pc = "restart" =>
            \A userID \in DOMAIN hs.first :
              /\ userID \in DOMAIN serverBackend
              /\ \A verifier \in Verifiers(cfg) \ {Nil},
                    publicClientValue \in PublicValues(cfg) :
                   LET second == ExpectedM1(serverBackend[userID], verifier,
                                            publicClientValue)
                       first == ExpectedM1(hs.first[userID], verifier,
                                           publicClientValue)
                       ok(M1) == ServerStep2(cfg, serverBackend, now, "none", userID,
                                             Salt1, verifier, publicClientValue,
                                             M1).err = NoErr
                   IN  isValidPublicValue(cfg.grp.Prime, publicClientValue) =>
                         /\ \A clientEvidence \in Evidences :
                              ok(clientEvidence) <=> clientEvidence = second
                         /\ ok(first) => first = second)

\* After two calls of Server.Step1 that stored different B, a Server.Step2
\* has just rejected an evidence, and the evidence expected for the first B
\* differs, for some verifier and A, from the one for the second.
C40_Witness ==
    /\ hs.pc = "restart"
    /\ last.op = "Server.Step2"
    /\ last.err = "bad client credentials"
    /\ last.userID \in DOMAIN hs.first
    /\ hs.first[last.userID]["publicServerValue"] #
           serverBackend[last.userID]["publicServerValue"]
    /\ \E verifier \in Verifiers(cfg) \ {Nil}, publicClientValue \in 1..(cfg.grp.Prime - 1) :
         ExpectedM1(hs.first[last.userID], verifier, publicClientValue) #
             ExpectedM1(serverBackend[last.userID], verifier, publicClientValue)

====
